---- MODULE Spec2Model ----
(***************************************************************************)
(* Verification model of cryptobot_studio: the day-bucketed risk ledger    *)
(* (src/src/risk_manager.py and src/polymarket_monitor/risk_manager.py),   *)
(* the trading engine that gates, orders and records                       *)
(* (src/src/trader.py), the hybrid strategy composer                       *)
(* (src/src/hybrid_strategy.py), and the signal strategies with their      *)
(* indicators (src/src/strategies.py, src/src/indicators.py,               *)
(* src/src/market_analyzer.py, src/src/strategy_factory.py), and the       *)
(* orchestrator's monitoring loop with its own ledger (src/src/main.py).   *)
(*                                                                         *)
(* Money is modelled in whole currency units (KRW for the crypto ledger,   *)
(* USD for the polymarket ledger) and the arithmetic is exact: the         *)
(* binary rounding of Python floats is not modelled.  Calendar dates       *)
(* (date.today().isoformat()) are day numbers; the code only compares      *)
(* them for equality.  An optional argument (Python None) is the empty     *)
(* sequence, a supplied value x is <<x>>.                                  *)
(***************************************************************************)
EXTENDS Integers, Sequences, FiniteSets, TLC

VARIABLES
    \* the risk ledger (RiskManager)
    kind,           \* which RiskManager class this ledger is: "crypto" | "polymarket"
    today,          \* date.today(), a day number
    current_stats,  \* RiskManager.current_stats (DailyStats)
    stats_file,     \* content of data/daily_stats.json: <<>> (no file) or <<DailyStats>>
    ret,            \* the last ledger call: its arguments, the record before it, its result
    written_on,     \* history: the day of the last write to current_stats
    stopped_on,     \* history: the day of the last emergency_stop, <<>> if none
    \* the trading engine (AutoTrader) and the exchange it trades on
    mode,           \* AutoTrader.mode: "semi" | "full"
    positions,      \* AutoTrader.positions: symbol -> PositionInfo
    balances,       \* the exchange account: symbol -> volume held
    pc,             \* where the engine is: "created" | "idle" | "buy" | "sell"
    call,           \* execute_signal's arguments and locals (the call in progress or the last)
    events,         \* history: what that call did, in order
    positions0,     \* history: positions when that call began
    outcome,        \* the TradeResult that call returned
    \* the hybrid strategy composer (HybridStrategy)
    daily_profit,   \* HybridStrategy.daily_profit, in hundredths of a percent
    trade_count,    \* HybridStrategy.trade_count
    last_reset,     \* HybridStrategy.last_reset, a day number
    hret,           \* the last composer call: its arguments and its result
    \* the signal strategies and the indicators they compute
    ohlcv,          \* the candle series fetched so far (ohlcv_df), oldest first
    sret,           \* the last strategy or indicator call: its arguments and its result
    \* the orchestrator (CryptoBotOrchestrator) around the engine
    orch_stats,     \* CryptoBotOrchestrator.risk_manager.current_stats (DailyStats)
    cycle           \* history: what the last monitor_loop gate did, and the account then

ledgerVars == <<kind, today, current_stats, stats_file, ret, written_on, stopped_on>>

engineVars == <<mode, positions, balances, pc, call, events, positions0, outcome>>

hybridVars == <<daily_profit, trade_count, last_reset, hret>>

signalVars == <<ohlcv, sret>>

botVars == <<orch_stats, cycle>>

vars == <<ledgerVars, engineVars, hybridVars, signalVars, botVars>>

----------------------------------------------------------------------------
(* Bounds of the model *)

\* last calendar day the model reaches (days 0..MaxDay)
MaxDay == 1

\* record_trade is unbounded in the code; the model stops once a record holds
\* this many trades more than the daily maximum
Overshoot == 1

\* max_daily_trades of the crypto ledger (a constructor argument / setting)
MAX_DAILY_TRADES == 3

\* largest volume of a symbol the exchange account holds
MaxVolume == 1

\* update_profit calls between two reset_daily calls
MaxUpdates == 3

----------------------------------------------------------------------------
(* Program constants *)

\* settings.trade_amount, the default of RiskManager.MAX_TRADE_AMOUNT
MAX_TRADE_AMOUNT == 10000

\* settings.max_daily_loss, the default of RiskManager.MAX_DAILY_LOSS
MAX_DAILY_LOSS == 50000

\* settings.scalping_stop_loss = 0.5 (percent), in tenths of a percent
SCALPING_STOP_LOSS == 5

\* settings.scalping_take_profit = 0.35 (percent), in hundredths of a percent
SCALPING_TAKE_PROFIT == 35

\* settings.scalping_bid_ask_ratio = 2.0, in hundredths
SCALPING_BID_ASK_RATIO == 200

\* polymarket RiskManager class constants
MAX_BET_PER_TRADE == 50

MAX_DAILY_BETS == 5

POLY_MAX_DAILY_LOSS == 200

\* HybridStrategy.__init__ defaults: daily_target = 1.0 (percent), in hundredths
\* of a percent
DAILY_TARGET == 100

\* ict_position_ratio = 0.05 and trend_position_ratio = 0.01, in ten-thousandths
ICT_POSITION_RATIO == 500

TREND_POSITION_RATIO == 100

\* take-profit and stop-loss percentages, in hundredths of a percent
ICT_TAKE_PROFIT == 200

ICT_STOP_LOSS == 100

TREND_TAKE_PROFIT == 30

TREND_STOP_LOSS == 50

\* confluence_threshold of the composer's ICTStrategy
ICT_CONFLUENCE_THRESHOLD == 50

\* rsi_oversold of TrendFollowingAnalyzer
RSI_OVERSOLD == 30

None == <<>>

Some(x) == <<x>>

\* Python truthiness of an optional number: `if amount:` is false for None and for 0
Truthy(amount) == amount # None /\ amount[1] # 0

Abs(x) == IF x < 0 THEN -x ELSE x

MaxTradeAmountOf(k) == IF k = "crypto" THEN MAX_TRADE_AMOUNT ELSE MAX_BET_PER_TRADE

MaxDailyTradesOf(k) == IF k = "crypto" THEN MAX_DAILY_TRADES ELSE MAX_DAILY_BETS

MaxDailyLossOf(k) == IF k = "crypto" THEN MAX_DAILY_LOSS ELSE POLY_MAX_DAILY_LOSS

----------------------------------------------------------------------------
(* DailyStats and the pure parts of the ledger operations *)

\* DailyStats(date=today, total_trades=0, ...): the zeroed record of a day.
\* The polymarket record calls total_trades total_bets and has no per-strategy
\* counters; they stay 0 there.
NewStats(d) ==
    [date |-> d, total_trades |-> 0, total_wagered |-> 0, total_profit |-> 0,
     win_count |-> 0, loss_count |-> 0,
     rsi_trades |-> 0, bb_trades |-> 0, combined_trades |-> 0]

\* _load_today_stats: the stored record if it is today's, else a fresh one
LoadTodayStats(file, d) ==
    IF file # None /\ file[1].date = d THEN file[1] ELSE NewStats(d)

\* a date check that stamps the new date and keeps the counters
RolloverKeepsCounts(stats, d) == [stats EXCEPT !.date = d]

\* the date check at the head of can_trade
Rollover(stats, d) == IF stats.date # d THEN NewStats(d) ELSE stats

\* reasons: <<gate, number, number>>; the gate stands for the fixed text of the
\* message, the numbers for the values formatted into it
ReasonOk == <<"OK", 0, 0>>

ReasonCount(k) == <<"daily trade count exceeded", MaxDailyTradesOf(k), 0>>

ReasonLoss(stats) == <<"daily loss limit exceeded", Abs(stats.total_profit), 0>>

ReasonAmount(k, amount) == <<"trade amount over limit", amount, MaxTradeAmountOf(k)>>

ReasonPotential(k, stats) ==
    IF k = "crypto"
    THEN <<"potential loss over limit", MaxDailyLossOf(k) + stats.total_profit, 0>>
    ELSE <<"potential loss over limit", 0, 0>>

\* the forward-looking check without the 1.2 margin
PotentialBreachNoMargin(k, stats, amount) ==
    IF k = "crypto"
    THEN stats.total_profit * 1000 - amount * SCALPING_STOP_LOSS
            < -(MAX_DAILY_LOSS * 1000)
    ELSE stats.total_profit - amount < -POLY_MAX_DAILY_LOSS

\* potential_total_profit < -MAX_DAILY_LOSS, both sides multiplied by 10000:
\* crypto: estimated_loss = amount * (scalping_stop_loss / 100) * 1.2,
\*   that is amount * (SCALPING_STOP_LOSS / 1000) * (12 / 10)
\* polymarket: potential_loss = total_profit - amount
PotentialBreach(k, stats, amount) ==
    IF k = "crypto"
    THEN stats.total_profit * 10000 - amount * SCALPING_STOP_LOSS * 12
            < -(MaxDailyLossOf(k) * 10000)
    ELSE stats.total_profit - amount < -MaxDailyLossOf(k)

\* the limit checks of can_trade, after the date check; stats is the record
\* they read
Gates(k, stats, amount) ==
    IF stats.total_trades >= MaxDailyTradesOf(k)
    THEN [allowed |-> FALSE, reason |-> ReasonCount(k)]
    ELSE IF stats.total_profit < -MaxDailyLossOf(k)
    THEN [allowed |-> FALSE, reason |-> ReasonLoss(stats)]
    ELSE IF Truthy(amount) /\ amount[1] > MaxTradeAmountOf(k)
    THEN [allowed |-> FALSE, reason |-> ReasonAmount(k, amount[1])]
    ELSE IF Truthy(amount) /\ PotentialBreach(k, stats, amount[1])
    THEN [allowed |-> FALSE, reason |-> ReasonPotential(k, stats)]
    ELSE [allowed |-> TRUE, reason |-> ReasonOk]

\* strategy.lower() contains the substring
HasRsi(strategy) == strategy \in {"RSI", "RSI_BB"}

HasBb(strategy) == strategy \in {"RSI_BB", "BB"}

HasBollinger(strategy) == strategy \in {"Bollinger"}

\* an inference that counts a break-even trade as a win
WonNonNegative(profit, won) == IF won = None THEN profit >= 0 ELSE won[1]

\* won inferred from the sign of profit when it is not given
Won(profit, won) == IF won = None THEN profit > 0 ELSE won[1]

\* the record after record_trade
Recorded(k, stats, amount, profit, strategy, won) ==
    LET w == Won(profit, won)
        counted == k = "crypto"
    IN  [stats EXCEPT
            !.total_trades = @ + 1,
            !.total_wagered = @ + amount,
            !.total_profit = @ + profit,
            !.win_count = IF w THEN @ + 1 ELSE @,
            !.loss_count = IF w THEN @ ELSE @ + 1,
            !.combined_trades =
                IF counted /\ HasRsi(strategy) /\ HasBb(strategy) THEN @ + 1 ELSE @,
            !.rsi_trades =
                IF counted /\ HasRsi(strategy) /\ ~HasBb(strategy) THEN @ + 1 ELSE @,
            !.bb_trades =
                IF counted /\ ~HasRsi(strategy) /\ (HasBb(strategy) \/ HasBollinger(strategy))
                THEN @ + 1 ELSE @]

\* an emergency stop that also clears the day's profit
StoppedClearsProfit(k, stats) ==
    [stats EXCEPT !.total_trades = MaxDailyTradesOf(k), !.total_profit = 0]

\* the record after emergency_stop
Stopped(k, stats) == [stats EXCEPT !.total_trades = MaxDailyTradesOf(k)]

----------------------------------------------------------------------------
(* Inputs *)

Kinds == {"crypto", "polymarket"}

\* amounts offered to can_trade
GateAmounts(k) ==
    IF k = "crypto"
    THEN {None, Some(0), Some(10000), Some(10001)}
    ELSE {None, Some(0), Some(50), Some(51)}

\* calls of record_trade(amount, profit, strategy, won): the engine's buy
\* (profit 0, won inferred), a winning and a losing sell with won inferred, and
\* a call whose won argument contradicts the sign of the profit
TradeArgs(k) ==
    IF k = "crypto"
    THEN {[amount |-> 10000, profit |-> 0, strategy |-> "Orderbook_Scalping", won |-> None],
          [amount |-> 10000, profit |-> 500, strategy |-> "RSI", won |-> None],
          [amount |-> 10000, profit |-> -25000, strategy |-> "RSI_BB", won |-> None],
          [amount |-> 10000, profit |-> -24950, strategy |-> "Bollinger", won |-> Some(TRUE)]}
    ELSE {[amount |-> 50, profit |-> 0, strategy |-> "unknown", won |-> None],
          [amount |-> 50, profit |-> -100, strategy |-> "unknown", won |-> None],
          [amount |-> 25, profit |-> 10, strategy |-> "unknown", won |-> Some(FALSE)]}

\* the last call, as the caller sees it
Call(op, amount, profit, strategy, won, pre, result) ==
    [op |-> op, amount |-> amount, profit |-> profit, strategy |-> strategy,
     won |-> won, pre |-> pre, day |-> today, written |-> written_on,
     allowed |-> result.allowed, reason |-> result.reason]

NoResult == [allowed |-> FALSE, reason |-> <<"", 0, 0>>]

----------------------------------------------------------------------------
(* The ledger's operations *)

\* RiskManager.__init__: _load_today_stats (also a restart of the process)
Construct ==
    /\ current_stats' = LoadTodayStats(stats_file, today)
    /\ ret' = Call("__init__", None, 0, "", None, current_stats, NoResult)
    /\ written_on' = today
    /\ UNCHANGED <<kind, today, stats_file, stopped_on>>

\* can_trade(amount)
CanTrade(amount) ==
    LET stats == Rollover(current_stats, today)
    IN  /\ current_stats' = stats
        /\ stats_file' = IF current_stats.date # today THEN Some(stats) ELSE stats_file
        /\ ret' = Call("can_trade", amount, 0, "", None, current_stats,
                       Gates(kind, stats, amount))
        /\ written_on' = IF current_stats.date # today THEN today ELSE written_on
        /\ UNCHANGED <<kind, today, stopped_on>>

\* record_trade(amount, profit, strategy, won)
RecordTrade(amount, profit, strategy, won) ==
    LET stats == Recorded(kind, current_stats, amount, profit, strategy, won)
    IN  /\ current_stats.win_count + current_stats.loss_count
                < MaxDailyTradesOf(kind) + Overshoot
        /\ current_stats' = stats
        /\ stats_file' = Some(stats)
        /\ ret' = Call("record_trade", Some(amount), profit, strategy, won,
                       current_stats, NoResult)
        /\ written_on' = today
        /\ UNCHANGED <<kind, today, stopped_on>>

\* get_daily_stats()
GetDailyStats ==
    /\ ret' = Call("get_daily_stats", None, 0, "", None, current_stats, NoResult)
    /\ UNCHANGED <<kind, today, current_stats, stats_file, written_on, stopped_on>>

\* get_remaining_capacity(): can_trade() and a summary
GetRemainingCapacity ==
    LET stats == Rollover(current_stats, today)
    IN  /\ current_stats' = stats
        /\ stats_file' = IF current_stats.date # today THEN Some(stats) ELSE stats_file
        /\ ret' = Call("get_remaining_capacity", None, 0, "", None, current_stats,
                       Gates(kind, stats, None))
        /\ written_on' = IF current_stats.date # today THEN today ELSE written_on
        /\ UNCHANGED <<kind, today, stopped_on>>

\* emergency_stop(reason)
EmergencyStop ==
    LET stats == Stopped(kind, current_stats)
    IN  /\ current_stats' = stats
        /\ stats_file' = Some(stats)
        /\ ret' = Call("emergency_stop", None, 0, "", None, current_stats, NoResult)
        /\ written_on' = today
        /\ stopped_on' = Some(today)
        /\ UNCHANGED <<kind, today>>

\* midnight passes
DayChange ==
    /\ today < MaxDay
    /\ today' = today + 1
    /\ UNCHANGED <<kind, current_stats, stats_file, ret, written_on, stopped_on>>

----------------------------------------------------------------------------
(* The trading engine: AutoTrader.execute_signal and the orders it places.  *)
(* The engine owns a crypto ledger (self.risk_manager); kind is "crypto"    *)
(* in every state of the engine's specification.                            *)

Symbols == {"KRW-ETH"}

\* prices the exchange quotes (get_current_price never returns 0: a falsy
\* price is reported as None)
Prices == {10000}

\* average buy prices the exchange reports; 0 when unknown or on a failed read
AvgPrices == {0, 5000, 10000, 40000}

\* amount arguments of execute_signal: run_once passes none
SignalAmounts == {None, Some(0), Some(20000)}

SignalActions == {"BUY", "SELL", "HOLD"}

\* OrderbookScalpingStrategy.name, the strategy of the engine's signals
StrategyName == "Orderbook_Scalping"

\* PositionInfo
PositionInfo(in_position, entry_price, balance) ==
    [in_position |-> in_position, entry_price |-> entry_price, balance |-> balance]

\* _get_position's default for a symbol the dict does not hold
NoPosition == PositionInfo(FALSE, 0, 0)

\* TradeResult: success, action and error (the fields a caller branches on)
TradeResult(success, action, error) ==
    [success |-> success, action |-> action, error |-> error]

NoCall == [symbol |-> "", action |-> "HOLD", amount |-> 0, price |-> 0]

\* a gate whose denial is ignored
GateNeverDenies(gate) == FALSE

\* `if not can_trade:` in execute_signal
GateDenies(gate) == ~gate.allowed

GateEvent(gate) == IF gate.allowed THEN "can_trade allowed" ELSE "can_trade denied"

\* _execute_buy records the trade when order.success
BuyRecorded(ok) == ok

\* a variant of the mode test that lets every signal through to an order
SignalOnlyNever(m) == FALSE

\* execute_signal reports the signal and places no order: self.mode == "semi"
SignalOnly(m) == m = "semi"

\* AutoTrader.start: _check_existing_positions
Start(read_ok, avg) ==
    /\ pc = "created"
    /\ pc' = "idle"
    /\ positions' =
            IF read_ok
            THEN [s \in Symbols |->
                    IF balances[s] > 0
                    THEN PositionInfo(TRUE, avg[s], balances[s])
                    ELSE positions[s]]
            ELSE positions
    /\ UNCHANGED <<mode, balances, call, events, positions0, outcome>>
    /\ UNCHANGED ledgerVars

\* execute_signal up to the point where it returns or goes on to an order,
\* entered from the engine position `at`
ExecuteSignalFrom(at, symbol, action, amount_arg, price) ==
    LET amount == IF Truthy(amount_arg) THEN amount_arg[1] ELSE MAX_TRADE_AMOUNT
        gate == Gates(kind, Rollover(current_stats, today), Some(amount))
    IN  /\ pc = at
        /\ positions0' = positions
        /\ call' = [symbol |-> symbol, action |-> action, amount |-> amount,
                    price |-> IF price = None THEN 0 ELSE price[1]]
        /\ UNCHANGED <<mode, positions, balances>>
        /\ IF price = None
           THEN /\ outcome' = TradeResult(FALSE, action, "no price")
                /\ events' = <<>>
                /\ pc' = "idle"
                /\ UNCHANGED ledgerVars
           ELSE IF action = "HOLD"
           THEN /\ outcome' = TradeResult(TRUE, "HOLD", "")
                /\ events' = <<>>
                /\ pc' = "idle"
                /\ UNCHANGED ledgerVars
           ELSE /\ CanTrade(Some(amount))
                /\ events' = <<GateEvent(gate)>>
                /\ IF GateDenies(gate)
                   THEN /\ outcome' = TradeResult(FALSE, action, gate.reason[1])
                        /\ pc' = "idle"
                   ELSE IF SignalOnly(mode)
                   THEN /\ outcome' = TradeResult(TRUE,
                                IF action = "BUY" THEN "SIGNAL_BUY" ELSE "SIGNAL_SELL", "")
                        /\ pc' = "idle"
                   ELSE /\ outcome' = outcome
                        /\ pc' = IF action = "BUY" THEN "buy" ELSE "sell"

\* execute_signal called on an idle engine
ExecuteSignal(symbol, action, amount_arg, price) ==
    ExecuteSignalFrom("idle", symbol, action, amount_arg, price)

\* _execute_buy: the market buy order and what follows it.  The exchange
\* refuses an order that would take the holding past MaxVolume.
ExecuteBuy(ok) ==
    LET volume == call.amount \div call.price
    IN  /\ pc = "buy"
        /\ ok => balances[call.symbol] + volume <= MaxVolume
        /\ pc' = "idle"
        /\ UNCHANGED <<mode, call, positions0>>
        /\ IF ok
           THEN /\ balances' = [balances EXCEPT ![call.symbol] = @ + volume]
                /\ positions' = [positions EXCEPT
                                    ![call.symbol] = PositionInfo(TRUE, call.price, volume)]
                /\ outcome' = TradeResult(TRUE, "BUY", "")
           ELSE /\ UNCHANGED <<balances, positions>>
                /\ outcome' = TradeResult(FALSE, "BUY", "order failed")
        /\ IF BuyRecorded(ok)
           THEN /\ RecordTrade(call.amount, 0, StrategyName, None)
                /\ events' = events \o <<IF ok THEN "buy ok" ELSE "buy failed",
                                          "record_trade">>
           ELSE /\ UNCHANGED ledgerVars
                /\ events' = Append(events, IF ok THEN "buy ok" ELSE "buy failed")

\* _execute_sell: the balance and average price reads, the market sell order
\* of the whole balance, and what follows it.  A failed read returns 0.
ExecuteSell(balance, avg_buy_price, ok) ==
    LET total == balance * call.price
        profit == IF avg_buy_price > 0 THEN total - balance * avg_buy_price ELSE 0
    IN  /\ pc = "sell"
        /\ balance \in {balances[call.symbol], 0}
        /\ pc' = "idle"
        /\ UNCHANGED <<mode, call, positions0>>
        /\ IF balance <= 0
           THEN /\ outcome' = TradeResult(FALSE, "SELL", "nothing to sell")
                /\ UNCHANGED <<balances, positions, events>>
                /\ UNCHANGED ledgerVars
           ELSE IF ok
           THEN /\ balances' = [balances EXCEPT ![call.symbol] = 0]
                /\ positions' = [positions EXCEPT ![call.symbol] = NoPosition]
                /\ RecordTrade(total, profit, StrategyName, None)
                /\ events' = events \o <<"sell ok", "record_trade">>
                /\ outcome' = TradeResult(TRUE, "SELL", "")
           ELSE /\ UNCHANGED <<balances, positions>>
                /\ UNCHANGED ledgerVars
                /\ events' = Append(events, "sell failed")
                /\ outcome' = TradeResult(FALSE, "SELL", "order failed")

\* the account changes outside the bot: a deposit, a withdrawal, a manual trade
ExternalTrade(symbol, volume) ==
    /\ pc # "created"
    /\ balances[symbol] # volume
    /\ balances' = [balances EXCEPT ![symbol] = volume]
    /\ UNCHANGED <<mode, positions, pc, call, events, positions0, outcome>>
    /\ UNCHANGED ledgerVars

----------------------------------------------------------------------------
(* The hybrid strategy composer: HybridStrategy.  Percentages (profits,     *)
(* targets, take-profit and stop-loss) are in hundredths of a percent,      *)
(* confidences and multipliers in hundredths, base position ratios in       *)
(* ten-thousandths, so that a position_size_ratio (base * multiplier) is in *)
(* millionths.                                                              *)

\* HybridSignal
HybridSignal(action, strategy_type, confidence, position_size_ratio, take_profit, stop_loss) ==
    [action |-> action, strategy_type |-> strategy_type, confidence |-> confidence,
     position_size_ratio |-> position_size_ratio,
     take_profit |-> take_profit, stop_loss |-> stop_loss]

\* Signal / TrendSignal of a sub-strategy: the fields the composer reads
SubSignal(action, confidence) == [action |-> action, confidence |-> confidence]

\* is_target_achieved
IsTargetAchieved(profit) == profit >= DAILY_TARGET

\* a multiplier whose tiers start strictly above their thresholds
MultiplierStrictTiers(profit) ==
    IF profit > DAILY_TARGET THEN 50
    ELSE IF profit * 10 > DAILY_TARGET * 7 THEN 75
    ELSE 100

\* get_position_size_multiplier: daily_profit >= daily_target * 0.7 is
\* compared with both sides multiplied by 10
PositionSizeMultiplier(profit) ==
    IF profit >= DAILY_TARGET THEN 50
    ELSE IF profit * 10 >= DAILY_TARGET * 7 THEN 75
    ELSE 100

\* ICTStrategy.calculate_confluence_score on the detections of a 1h frame
ConfluenceScore(f) ==
    (IF f.ob THEN 30 ELSE 0) + (IF f.ob /\ f.ob_zone THEN 10 ELSE 0)
    + (IF f.fvg THEN 30 ELSE 0) + (IF f.fvg /\ f.fvg_zone THEN 10 ELSE 0)
    + (IF f.lp THEN 20 ELSE 0)

Min(a, b) == IF a < b THEN a ELSE b

\* an ICT strategy whose confidence reaches 0.7 at the confluence threshold
ICTAnalyzeConfidentAtThreshold(f) ==
    LET score == ConfluenceScore(f)
        direction == IF f.ob THEN f.ob_dir ELSE IF f.fvg THEN f.fvg_dir ELSE "BULLISH"
    IN  IF score >= ICT_CONFLUENCE_THRESHOLD /\ direction = "BULLISH"
        THEN IF f.rr_ok
             THEN SubSignal("BUY", Min(95, 70 + (score - ICT_CONFLUENCE_THRESHOLD)))
             ELSE SubSignal("HOLD", 50)
        ELSE IF score >= ICT_CONFLUENCE_THRESHOLD /\ direction = "BEARISH"
        THEN SubSignal("HOLD", 40)
        ELSE SubSignal("HOLD", 30)

\* ICTStrategy.analyze(ohlcv_df, current_price, in_position=False) with a price.
\* f.rr_ok is rr_ratio >= min_rr_ratio: reward / risk is take_profit / stop_loss
\* = 2.0 in exact arithmetic and falls on either side of 2.0 in binary floating
\* point, depending on the price.
ICTAnalyze(f) ==
    LET score == ConfluenceScore(f)
        direction == IF f.ob THEN f.ob_dir ELSE IF f.fvg THEN f.fvg_dir ELSE "BULLISH"
    IN  IF score >= ICT_CONFLUENCE_THRESHOLD /\ direction = "BULLISH"
        THEN IF f.rr_ok
             THEN SubSignal("BUY", Min(95, 70 + (score - 80)))
             ELSE SubSignal("HOLD", 50)
        ELSE IF score >= ICT_CONFLUENCE_THRESHOLD /\ direction = "BEARISH"
        THEN SubSignal("HOLD", 40)
        ELSE SubSignal("HOLD", 30)

\* TrendFollowingAnalyzer.analyze(df, current_price, in_position=False)
TrendAnalyze(f) ==
    LET bullish_rsi == f.rsi < 50 /\ f.rsi > RSI_OVERSOLD
    IN  IF ~f.enough THEN SubSignal("HOLD", 0)
        ELSE IF f.golden_cross \/ (f.ema_up /\ bullish_rsi)
        THEN SubSignal("BUY", Min(90, 70 + (50 - f.rsi)))
        ELSE SubSignal("HOLD", 30)

\* an ICT gate that takes any BUY
ICTQualifiesAnyBuy(sig) == sig.action = "BUY"

\* ict_signal.action == "BUY" and ict_signal.confidence >= 0.7
ICTQualifies(sig) == sig.action = "BUY" /\ sig.confidence >= 70

\* trend_signal.action == "BUY" and trend_signal.confidence >= 0.6
TrendQualifies(sig) == sig.action = "BUY" /\ sig.confidence >= 60

\* `in_position and entry_price and entry_price > 0`
OpenPosition(in_position, entry_price) ==
    in_position /\ Truthy(entry_price) /\ entry_price[1] > 0

\* an exit decision that compares every position with the trend thresholds
ExitSignalTrendOnly(size_mult, price, entry, position_strategy) ==
    LET gain == (price - entry) * 10000
        ict == position_strategy = Some("ICT")
    IN  IF gain >= TREND_TAKE_PROFIT * entry \/ gain <= -(TREND_STOP_LOSS * entry)
        THEN HybridSignal("SELL", IF ict THEN "ICT" ELSE "TREND", 95,
                          (IF ict THEN ICT_POSITION_RATIO ELSE TREND_POSITION_RATIO)
                              * size_mult,
                          IF ict THEN ICT_TAKE_PROFIT ELSE TREND_TAKE_PROFIT,
                          IF ict THEN ICT_STOP_LOSS ELSE TREND_STOP_LOSS)
        ELSE HybridSignal("HOLD",
                          IF position_strategy = None THEN "UNKNOWN"
                          ELSE position_strategy[1],
                          50, 0, 0, 0)

\* the exit decision of analyze for an open position; profit_rate >= tp is
\* (price - entry) / entry * 100 >= tp, compared with both sides multiplied
\* by entry * 100
ExitSignal(size_mult, price, entry, position_strategy) ==
    LET gain == (price - entry) * 10000
        ict == position_strategy = Some("ICT")
        tp == IF ict THEN ICT_TAKE_PROFIT ELSE TREND_TAKE_PROFIT
        sl == IF ict THEN ICT_STOP_LOSS ELSE TREND_STOP_LOSS
        base == IF ict THEN ICT_POSITION_RATIO ELSE TREND_POSITION_RATIO
    IN  IF gain >= tp * entry \/ gain <= -(sl * entry)
        THEN HybridSignal("SELL", IF ict THEN "ICT" ELSE "TREND", 95,
                          base * size_mult, tp, sl)
        ELSE HybridSignal("HOLD",
                          IF position_strategy = None THEN "UNKNOWN"
                          ELSE position_strategy[1],
                          50, 0, 0, 0)

\* the entry search of analyze when no position is open: the signal returned
\* and the sub-strategies consulted, in order
EntrySignal(profit, size_mult, df_1h, df_5m) ==
    LET ict_asked == df_1h # None /\ ~IsTargetAchieved(profit)
        ict_taken == ict_asked /\ ICTQualifies(ICTAnalyze(df_1h[1]))
        trend_asked == ~ict_taken /\ df_5m # None
        trend_taken == trend_asked /\ TrendQualifies(TrendAnalyze(df_5m[1]))
        trend_mult == IF IsTargetAchieved(profit) THEN size_mult \div 2 ELSE size_mult
    IN  [consulted |-> (IF ict_asked THEN <<"ICT">> ELSE <<>>)
                       \o (IF trend_asked THEN <<"TREND">> ELSE <<>>),
         signal |->
            IF ict_taken
            THEN HybridSignal("BUY", "ICT", ICTAnalyze(df_1h[1]).confidence,
                              ICT_POSITION_RATIO * size_mult,
                              ICT_TAKE_PROFIT, ICT_STOP_LOSS)
            ELSE IF trend_taken
            THEN HybridSignal("BUY", "TREND", TrendAnalyze(df_5m[1]).confidence,
                              TREND_POSITION_RATIO * trend_mult,
                              TREND_TAKE_PROFIT, TREND_STOP_LOSS)
            ELSE HybridSignal("HOLD", "NONE", 30, 0, 0, 0)]

\* HybridStrategy.analyze
HybridAnalyze(profit, df_1h, df_5m, current_price, in_position, entry_price, position_strategy) ==
    LET size_mult == PositionSizeMultiplier(profit)
    IN  IF current_price = None
        THEN [consulted |-> <<>>, signal |-> HybridSignal("HOLD", "NONE", 0, 0, 0, 0)]
        ELSE IF OpenPosition(in_position, entry_price)
        THEN [consulted |-> <<>>,
              signal |-> ExitSignal(size_mult, current_price[1], entry_price[1],
                                    position_strategy)]
        ELSE EntrySignal(profit, size_mult, df_1h, df_5m)

\* the detections of a 1h frame: order block, fair value gap, liquidity pool
ICTFrame(ob, ob_dir, ob_zone, fvg, fvg_dir, fvg_zone, lp, rr_ok) ==
    [ob |-> ob, ob_dir |-> ob_dir, ob_zone |-> ob_zone,
     fvg |-> fvg, fvg_dir |-> fvg_dir, fvg_zone |-> fvg_zone,
     lp |-> lp, rr_ok |-> rr_ok]

\* 1h frames: scores 0, 50, 70, 80 and 100 bullish, 80 bearish, 80 bullish
\* with the reward/risk ratio rounded below 2.0
ICTFrames ==
    {ICTFrame(FALSE, "NONE", FALSE, FALSE, "NONE", FALSE, FALSE, TRUE),
     ICTFrame(TRUE, "BULLISH", FALSE, FALSE, "NONE", FALSE, TRUE, TRUE),
     ICTFrame(TRUE, "BULLISH", TRUE, TRUE, "BULLISH", FALSE, FALSE, TRUE),
     ICTFrame(TRUE, "BULLISH", FALSE, TRUE, "BEARISH", FALSE, TRUE, TRUE),
     ICTFrame(TRUE, "BULLISH", TRUE, TRUE, "BULLISH", TRUE, TRUE, TRUE),
     ICTFrame(TRUE, "BEARISH", FALSE, TRUE, "BULLISH", FALSE, TRUE, TRUE),
     ICTFrame(FALSE, "NONE", FALSE, TRUE, "BULLISH", TRUE, TRUE, TRUE),
     ICTFrame(TRUE, "BULLISH", FALSE, TRUE, "BULLISH", FALSE, TRUE, FALSE)}

\* the indicators of a 5m frame
TrendFrame(enough, golden_cross, ema_up, rsi) ==
    [enough |-> enough, golden_cross |-> golden_cross, ema_up |-> ema_up, rsi |-> rsi]

\* 5m frames: too short, a golden cross at RSI 75 (confidence 0.45), one at
\* RSI 60 (0.6), rising EMAs at RSI 40 (0.8), one at RSI 61 (0.59), no signal
TrendFrames ==
    {TrendFrame(FALSE, TRUE, TRUE, 40),
     TrendFrame(TRUE, TRUE, TRUE, 75),
     TrendFrame(TRUE, TRUE, TRUE, 60),
     TrendFrame(TRUE, FALSE, TRUE, 40),
     TrendFrame(TRUE, TRUE, TRUE, 61),
     TrendFrame(TRUE, FALSE, FALSE, 55)}

HybridArgs(df_1h, df_5m, current_price, in_position, entry_price, position_strategy) ==
    [df_1h |-> df_1h, df_5m |-> df_5m, current_price |-> current_price,
     in_position |-> in_position, entry_price |-> entry_price,
     position_strategy |-> position_strategy]

\* calls of analyze: without a price; with an open position entered at 10000
\* and priced around its exits; without a position, over the frames; and
\* flagged in_position without a usable entry price
HybridInputs ==
    {HybridArgs(None, None, None, FALSE, None, None)}
    \cup {HybridArgs(None, None, Some(p), TRUE, Some(10000), ps) :
            p \in {9900, 9950, 10000, 10030, 10200},
            ps \in {None, Some("ICT"), Some("TREND")}}
    \cup {HybridArgs(d1, d5, Some(10000), FALSE, None, None) :
            d1 \in {None} \cup {Some(f) : f \in ICTFrames},
            d5 \in {None} \cup {Some(f) : f \in TrendFrames}}
    \cup {HybridArgs(Some(ICTFrame(TRUE, "BULLISH", TRUE, TRUE, "BULLISH", TRUE, TRUE, TRUE)),
                     Some(TrendFrame(TRUE, FALSE, TRUE, 40)),
                     Some(10000), TRUE, e, Some("ICT")) : e \in {None, Some(0)}}

\* profit_percent arguments of update_profit
ProfitPercents == {-50, 30, 35, 70, 120}

NoSignal == HybridSignal("", "", 0, 0, 0, 0)

NoArgs == HybridArgs(None, None, None, FALSE, None, None)

\* the last composer call, as the caller sees it
HybridCall(op, profit_percent, args, multiplier, result) ==
    [op |-> op, profit_percent |-> profit_percent, args |-> args,
     before |-> daily_profit, day |-> today, multiplier |-> multiplier,
     consulted |-> result.consulted, signal |-> result.signal]

NoAnalysis == [consulted |-> <<>>, signal |-> NoSignal]

\* reset_daily()
ResetDaily ==
    /\ daily_profit' = 0
    /\ trade_count' = 0
    /\ last_reset' = today
    /\ hret' = HybridCall("reset_daily", 0, NoArgs, 0, NoAnalysis)

\* update_profit(profit_percent)
UpdateProfit(profit_percent) ==
    /\ trade_count < MaxUpdates
    /\ daily_profit' = daily_profit + profit_percent
    /\ trade_count' = trade_count + 1
    /\ hret' = HybridCall("update_profit", profit_percent, NoArgs, 0, NoAnalysis)
    /\ UNCHANGED last_reset

\* get_position_size_multiplier()
GetPositionSizeMultiplier ==
    /\ hret' = HybridCall("get_position_size_multiplier", 0, NoArgs,
                          PositionSizeMultiplier(daily_profit), NoAnalysis)
    /\ UNCHANGED <<daily_profit, trade_count, last_reset>>

\* an analyze that starts a new day by itself: it zeroes the accumulator when
\* the date is no longer that of the last reset
AnalyzeWithRollover(a) ==
    LET profit == IF last_reset # today THEN 0 ELSE daily_profit
    IN  /\ hret' = HybridCall("analyze", 0, a, PositionSizeMultiplier(profit),
                              HybridAnalyze(profit, a.df_1h, a.df_5m, a.current_price,
                                            a.in_position, a.entry_price,
                                            a.position_strategy))
        /\ daily_profit' = profit
        /\ trade_count' = IF last_reset # today THEN 0 ELSE trade_count
        /\ last_reset' = today

\* analyze(df_1h, df_5m, current_price, in_position, entry_price, position_strategy)
Analyze(a) ==
    /\ hret' = HybridCall("analyze", 0, a, PositionSizeMultiplier(daily_profit),
                          HybridAnalyze(daily_profit, a.df_1h, a.df_5m, a.current_price,
                                        a.in_position, a.entry_price,
                                        a.position_strategy))
    /\ UNCHANGED <<daily_profit, trade_count, last_reset>>

----------------------------------------------------------------------------
(* The indicators (src/src/indicators.py) and the signal strategies that    *)
(* consume them (src/src/strategies.py).  A candle series (the OHLCV        *)
(* DataFrame) is a sequence of candles, oldest first, and positions are     *)
(* counted from 1.  Prices are whole units.  A result that is absent        *)
(* (Python None) is <<>>.  Percentages are in hundredths of a percent,      *)
(* confidences and ratios in hundredths.                                    *)

\* one row of the OHLCV DataFrame
Candle(open, high, low, close) ==
    [open |-> open, high |-> high, low |-> low, close |-> close]

\* df.tail(lookback)
TailN(df, lookback) ==
    IF Len(df) <= lookback THEN df ELSE SubSeq(df, Len(df) - lookback + 1, Len(df))

\* indicators.FVGResult; momentum_candle_time is the position of the momentum
\* candle in the series handed to detect_fvg
FVGResult(found, direction, gap_top, gap_bottom, stop_loss, take_profit, momentum_candle_time) ==
    [found |-> found, direction |-> direction, gap_top |-> gap_top,
     gap_bottom |-> gap_bottom, stop_loss |-> stop_loss, take_profit |-> take_profit,
     momentum_candle_time |-> momentum_candle_time, gap_size |-> gap_top - gap_bottom]

\* detect_fvg's "no gap" result
FVGNotFound == FVGResult(FALSE, "NONE", 0, 0, 0, 0, 0)

\* gap_percent >= min_gap_percent, with gap_percent = gap_size / gap_bottom * 100
GapLargeEnough(gap_top, gap_bottom, min_gap_percent) ==
    (gap_top - gap_bottom) * 10000 >= min_gap_percent * gap_bottom

\* the fill loop of a bullish gap: a candle after position i whose low reaches gap_bottom
BullishFilled(d, i, gap_bottom) == \E j \in (i + 1)..Len(d) : d[j].low <= gap_bottom

\* the fill loop of a bearish gap: a candle after position i whose high reaches gap_top
BearishFilled(d, i, gap_top) == \E j \in (i + 1)..Len(d) : d[j].high >= gap_top

RECURSIVE FvgScan(_, _, _, _)
\* the loop of detect_fvg from position i down, range(len(df) - 1, 2, -1): the
\* last position it visits, counted from 1, is the fourth candle of the
\* window; offset is the number of candles that tail() dropped
FvgScan(d, i, min_gap_percent, offset) ==
    IF i < 4 THEN FVGNotFound
    ELSE LET n2 == d[i - 2]
             n1 == d[i - 1]
             n == d[i]
         IN  IF /\ n2.high < n.low
                /\ GapLargeEnough(n.low, n2.high, min_gap_percent)
                /\ ~BullishFilled(d, i, n2.high)
             THEN FVGResult(TRUE, "BULLISH", n.low, n2.high, n1.low, n1.high,
                            offset + i - 1)
             ELSE IF /\ n2.low > n.high
                     /\ GapLargeEnough(n2.low, n.high, min_gap_percent)
                     /\ ~BearishFilled(d, i, n2.low)
             THEN FVGResult(TRUE, "BEARISH", n2.low, n.high, n1.high, n1.low,
                            offset + i - 1)
             ELSE FvgScan(d, i - 1, min_gap_percent, offset)

\* indicators.detect_fvg(df, min_gap_percent, lookback)
DetectFvg(df, min_gap_percent, lookback) ==
    IF df = None \/ Len(df[1]) < 3 THEN None
    ELSE LET d == TailN(df[1], lookback)
         IN  Some(FvgScan(d, Len(d), min_gap_percent, Len(df[1]) - Len(d)))

\* indicators.OrderBlockResult; candle_time is the position of the block's
\* candle in the series handed to detect_order_block
OrderBlockResult(found, direction, level, zone_top, zone_bottom, strength, candle_time) ==
    [found |-> found, direction |-> direction, level |-> level, zone_top |-> zone_top,
     zone_bottom |-> zone_bottom, strength |-> strength, candle_time |-> candle_time]

\* detect_order_block's "no block" result
OrderBlockNotFound == OrderBlockResult(FALSE, "NONE", 0, 0, 0, 0, 0)

\* candle['close'] > candle['open']
IsUp(c) == c.close > c.open

\* body_ratio >= min_body_ratio, with body_ratio = body / total_range, 0 for
\* a candle without range
BodyLargeEnough(c, min_body_ratio) ==
    LET body == Abs(c.close - c.open)
        total_range == c.high - c.low
    IN  IF total_range > 0 THEN body * 100 >= min_body_ratio * total_range
        ELSE 0 >= min_body_ratio

RECURSIVE RunCount(_, _, _, _, _, _)
\* the counting loop of detect_order_block, for j in range(i, max(i - 5, 0), -1):
\* <<consecutive_up, consecutive_down>> when it ends or breaks
RunCount(d, j, stop, up, down, min_consecutive) ==
    IF j <= stop THEN <<up, down>>
    ELSE LET up1 == IF IsUp(d[j]) THEN up + 1 ELSE 0
             down1 == IF IsUp(d[j]) THEN 0 ELSE down + 1
         IN  IF up1 >= min_consecutive \/ down1 >= min_consecutive
             THEN <<up1, down1>>
             ELSE RunCount(d, j - 1, stop, up1, down1, min_consecutive)

RECURSIVE ObScan(_, _, _, _, _)
\* the loop of detect_order_block from position i down, range(len(df) - 1,
\* min_consecutive + 1, -1)
ObScan(d, i, min_consecutive, min_body_ratio, offset) ==
    IF i < min_consecutive + 3 THEN OrderBlockNotFound
    ELSE LET stop == IF i - 5 > 1 THEN i - 5 ELSE 1
             run == RunCount(d, i, stop, 0, 0, min_consecutive)
             consecutive_up == run[1]
             consecutive_down == run[2]
             up_pos == i - consecutive_up
             down_pos == i - consecutive_down
         IN  IF /\ consecutive_up >= min_consecutive
                /\ up_pos >= 1
                /\ d[up_pos].close < d[up_pos].open
                /\ BodyLargeEnough(d[up_pos], min_body_ratio)
             THEN OrderBlockResult(TRUE, "BULLISH", d[up_pos].low, d[up_pos].open,
                                   d[up_pos].low, consecutive_up, offset + up_pos)
             ELSE IF /\ consecutive_down >= min_consecutive
                     /\ down_pos >= 1
                     /\ d[down_pos].close > d[down_pos].open
                     /\ BodyLargeEnough(d[down_pos], min_body_ratio)
             THEN OrderBlockResult(TRUE, "BEARISH", d[down_pos].high, d[down_pos].high,
                                   d[down_pos].close, consecutive_down, offset + down_pos)
             ELSE ObScan(d, i - 1, min_consecutive, min_body_ratio, offset)

\* indicators.detect_order_block(df, lookback, min_consecutive, min_body_ratio)
DetectOrderBlock(df, lookback, min_consecutive, min_body_ratio) ==
    IF df = None \/ Len(df[1]) < lookback THEN None
    ELSE LET d == TailN(df[1], lookback)
         IN  Some(ObScan(d, Len(d), min_consecutive, min_body_ratio, Len(df[1]) - Len(d)))

\* indicators.LiquidityPoolResult; zone_top and zone_bottom are in thousandths
\* of a price unit
LiquidityPoolResult(found, pool_type, level, zone_top, zone_bottom, touch_count) ==
    [found |-> found, pool_type |-> pool_type, level |-> level, zone_top |-> zone_top, zone_bottom |-> zone_bottom, touch_count |-> touch_count]

\* detect_liquidity_pool's "no pool" result
LiquidityPoolNotFound == LiquidityPoolResult(FALSE, "NONE", 0, 0, 0, 0)

\* detect_liquidity_pool's result for a level: buffer = level * buffer_percent
\* / 100 with the default buffer_percent = 0.1, a thousandth of the level
LiquidityPoolAt(pool_type, level) ==
    LiquidityPoolResult(TRUE, pool_type, level, 1000 * level + level, 1000 * level - level, 1)

\* the swing highs of detect_liquidity_pool: positions whose high is above
\* every other high within swing_period candles on either side
SwingHighs(d, swing_period) ==
    {i \in (swing_period + 1)..(Len(d) - swing_period) :
        \A j \in (i - swing_period)..(i + swing_period) : j # i => d[j].high < d[i].high}

\* the swing lows of detect_liquidity_pool
SwingLows(d, swing_period) ==
    {i \in (swing_period + 1)..(Len(d) - swing_period) :
        \A j \in (i - swing_period)..(i + swing_period) : j # i => d[j].low > d[i].low}

\* detect_liquidity_pool returning the swing high whenever there is one
DetectLiquidityPoolPrefersHigh(df, lookback, swing_period) ==
    IF df = None \/ Len(df[1]) < lookback THEN None
    ELSE LET d == TailN(df[1], lookback)
             current_price == d[Len(d)].close
             highs_above == {d[i].high : i \in {k \in SwingHighs(d, swing_period) :
                                                    d[k].high > current_price}}
             lows_below == {d[i].low : i \in {k \in SwingLows(d, swing_period) :
                                                  d[k].low < current_price}}
             closest_high == CHOOSE h \in highs_above : \A x \in highs_above : h <= x
             closest_low == CHOOSE l \in lows_below : \A x \in lows_below : l >= x
         IN  IF highs_above # {}
             THEN Some(LiquidityPoolAt("SWING_HIGH", closest_high))
             ELSE IF lows_below # {}
             THEN Some(LiquidityPoolAt("SWING_LOW", closest_low))
             ELSE Some(LiquidityPoolNotFound)

\* indicators.detect_liquidity_pool(df, lookback, swing_period)
DetectLiquidityPool(df, lookback, swing_period) ==
    IF df = None \/ Len(df[1]) < lookback THEN None
    ELSE LET d == TailN(df[1], lookback)
             current_price == d[Len(d)].close
             highs_above == {d[i].high : i \in {k \in SwingHighs(d, swing_period) :
                                                    d[k].high > current_price}}
             lows_below == {d[i].low : i \in {k \in SwingLows(d, swing_period) :
                                                  d[k].low < current_price}}
             closest_high == CHOOSE h \in highs_above : \A x \in highs_above : h <= x
             closest_low == CHOOSE l \in lows_below : \A x \in lows_below : l >= x
         IN  IF highs_above # {} /\ lows_below # {}
             THEN IF closest_high - current_price < current_price - closest_low
                  THEN Some(LiquidityPoolAt("SWING_HIGH", closest_high))
                  ELSE Some(LiquidityPoolAt("SWING_LOW", closest_low))
             ELSE IF highs_above # {}
             THEN Some(LiquidityPoolAt("SWING_HIGH", closest_high))
             ELSE IF lows_below # {}
             THEN Some(LiquidityPoolAt("SWING_LOW", closest_low))
             ELSE Some(LiquidityPoolNotFound)

\* strategies.Signal: action, strategy name, confidence in hundredths
Signal(action, strategy, confidence) ==
    [action |-> action, strategy |-> strategy, confidence |-> confidence]

\* `if result and result.found` of calculate_confluence_score and analyze
Found(result) == result # None /\ result[1].found

\* a confluence score that weighs the liquidity pool like the other two detections
CalculateConfluenceScoreHeavyPool(ob_result, fvg_result, lp_result, current_price) ==
    LET priced == current_price # None /\ current_price[1] # 0
        order_block == IF Found(ob_result) THEN 30 ELSE 0
        ob_zone == IF /\ Found(ob_result)
                      /\ priced
                      /\ ob_result[1].zone_bottom <= current_price[1]
                      /\ current_price[1] <= ob_result[1].zone_top
                   THEN 10 ELSE 0
        fvg == IF Found(fvg_result) THEN 30 ELSE 0
        fvg_zone == IF /\ Found(fvg_result)
                       /\ priced
                       /\ fvg_result[1].gap_bottom <= current_price[1]
                       /\ current_price[1] <= fvg_result[1].gap_top
                    THEN 10 ELSE 0
        liquidity_pool == IF Found(lp_result) THEN 30 ELSE 0
    IN  [score |-> order_block + ob_zone + fvg + fvg_zone + liquidity_pool,
         details |-> [order_block |-> order_block, fvg |-> fvg,
                      liquidity_pool |-> liquidity_pool,
                      price_in_zone |-> ob_zone + fvg_zone]]

\* ICTStrategy.calculate_confluence_score(ob_result, fvg_result, lp_result,
\* current_price): the score and its details
CalculateConfluenceScore(ob_result, fvg_result, lp_result, current_price) ==
    LET priced == current_price # None /\ current_price[1] # 0
        order_block == IF Found(ob_result) THEN 30 ELSE 0
        ob_zone == IF /\ Found(ob_result)
                      /\ priced
                      /\ ob_result[1].zone_bottom <= current_price[1]
                      /\ current_price[1] <= ob_result[1].zone_top
                   THEN 10 ELSE 0
        fvg == IF Found(fvg_result) THEN 30 ELSE 0
        fvg_zone == IF /\ Found(fvg_result)
                       /\ priced
                       /\ fvg_result[1].gap_bottom <= current_price[1]
                       /\ current_price[1] <= fvg_result[1].gap_top
                    THEN 10 ELSE 0
        liquidity_pool == IF Found(lp_result) THEN 20 ELSE 0
    IN  [score |-> order_block + ob_zone + fvg + fvg_zone + liquidity_pool,
         details |-> [order_block |-> order_block, fvg |-> fvg,
                      liquidity_pool |-> liquidity_pool,
                      price_in_zone |-> ob_zone + fvg_zone]]

\* ICTStrategy.__init__: threshold in points, ratio in hundredths, take
\* profit and stop loss in hundredths of a percent
ICTConfig(confluence_threshold, min_rr_ratio, take_profit, stop_loss) ==
    [confluence_threshold |-> confluence_threshold, min_rr_ratio |-> min_rr_ratio,
     take_profit |-> take_profit, stop_loss |-> stop_loss]

\* rr_ratio >= self.min_rr_ratio in ICTStrategy.analyze.  reward / risk is
\* take_profit / stop_loss in exact arithmetic; where that equals
\* min_rr_ratio the binary floating point quotient falls on either side of it,
\* depending on the price (rounds_down).  risk is 0 at price 0.
RewardRiskOk(cfg, price, rounds_down) ==
    IF price <= 0 THEN FALSE
    ELSE IF cfg.take_profit * 100 = cfg.min_rr_ratio * cfg.stop_loss THEN ~rounds_down
    ELSE cfg.take_profit * 100 > cfg.min_rr_ratio * cfg.stop_loss

\* the position branch of ICTStrategy.analyze: in_position and entry_price
\* and entry_price > 0
HoldsPosition(in_position, entry_price) ==
    in_position /\ entry_price # None /\ entry_price[1] > 0

\* an ICT strategy that also buys on a bearish direction
ICTStrategyAnalyzeAnyDirection(cfg, ohlcv_df, current_price, entry_price, in_position, ob_result, fvg_result, lp_result, rounds_down) ==
    IF current_price = None THEN Signal("HOLD", "ICT_Confluence", 0)
    ELSE IF HoldsPosition(in_position, entry_price)
    THEN IF (current_price[1] - entry_price[1]) * 10000 >= cfg.take_profit * entry_price[1]
         THEN Signal("SELL", "ICT_Confluence", 95)
         ELSE IF (current_price[1] - entry_price[1]) * 10000 <= -(cfg.stop_loss * entry_price[1])
         THEN Signal("SELL", "ICT_Confluence", 95)
         ELSE Signal("HOLD", "ICT_Confluence", 60)
    ELSE IF ohlcv_df = None THEN Signal("HOLD", "ICT_Confluence", 0)
    ELSE LET ob == IF ob_result = None THEN DetectOrderBlock(ohlcv_df, 30, 2, 50) ELSE ob_result
             fvg == IF fvg_result = None THEN DetectFvg(ohlcv_df, 5, 50) ELSE fvg_result
             lp == IF lp_result = None THEN DetectLiquidityPool(ohlcv_df, 50, 5) ELSE lp_result
             score == CalculateConfluenceScore(ob, fvg, lp, current_price).score
         IN  IF score >= cfg.confluence_threshold
             THEN IF RewardRiskOk(cfg, current_price[1], rounds_down)
                  THEN Signal("BUY", "ICT_Confluence", Min(95, 70 + (score - 80)))
                  ELSE Signal("HOLD", "ICT_Confluence", 50)
             ELSE Signal("HOLD", "ICT_Confluence", 30)

\* ICTStrategy.analyze(ohlcv_df, current_price, entry_price, in_position,
\* ob_result, fvg_result, lp_result)
ICTStrategyAnalyze(cfg, ohlcv_df, current_price, entry_price, in_position, ob_result, fvg_result, lp_result, rounds_down) ==
    IF current_price = None THEN Signal("HOLD", "ICT_Confluence", 0)
    ELSE IF HoldsPosition(in_position, entry_price)
    THEN IF (current_price[1] - entry_price[1]) * 10000 >= cfg.take_profit * entry_price[1]
         THEN Signal("SELL", "ICT_Confluence", 95)
         ELSE IF (current_price[1] - entry_price[1]) * 10000 <= -(cfg.stop_loss * entry_price[1])
         THEN Signal("SELL", "ICT_Confluence", 95)
         ELSE Signal("HOLD", "ICT_Confluence", 60)
    ELSE IF ohlcv_df = None THEN Signal("HOLD", "ICT_Confluence", 0)
    ELSE LET ob == IF ob_result = None THEN DetectOrderBlock(ohlcv_df, 30, 2, 50) ELSE ob_result
             fvg == IF fvg_result = None THEN DetectFvg(ohlcv_df, 5, 50) ELSE fvg_result
             lp == IF lp_result = None THEN DetectLiquidityPool(ohlcv_df, 50, 5) ELSE lp_result
             score == CalculateConfluenceScore(ob, fvg, lp, current_price).score
             direction == IF Found(ob) THEN ob[1].direction
                          ELSE IF Found(fvg) THEN fvg[1].direction
                          ELSE "BULLISH"
         IN  IF score >= cfg.confluence_threshold /\ direction = "BULLISH"
             THEN IF RewardRiskOk(cfg, current_price[1], rounds_down)
                  THEN Signal("BUY", "ICT_Confluence", Min(95, 70 + (score - 80)))
                  ELSE Signal("HOLD", "ICT_Confluence", 50)
             ELSE IF score >= cfg.confluence_threshold /\ direction = "BEARISH"
             THEN Signal("HOLD", "ICT_Confluence", 40)
             ELSE Signal("HOLD", "ICT_Confluence", 30)

\* FVGStrategy.analyze(ohlcv_df, current_price, fvg_result); the BUY
\* confidence min(0.9, 0.6 + rr_ratio * 0.1) is rounded down to a hundredth
FVGStrategyAnalyze(min_gap_percent, ohlcv_df, current_price, fvg_result) ==
    IF fvg_result = None /\ ohlcv_df = None THEN Signal("HOLD", "ICT_FVG", 0)
    ELSE LET fvg == IF fvg_result = None THEN DetectFvg(ohlcv_df, min_gap_percent, 50)
                    ELSE fvg_result
         IN  IF ~Found(fvg) THEN Signal("HOLD", "ICT_FVG", 30)
             ELSE IF current_price = None THEN Signal("HOLD", "ICT_FVG", 0)
             ELSE LET price == current_price[1]
                      risk == price - fvg[1].stop_loss
                      reward == fvg[1].take_profit - price
                      rr_tenths == IF risk > 0 THEN (reward * 10) \div risk ELSE 0
                  IN  IF fvg[1].direction = "BULLISH" /\ price < fvg[1].stop_loss
                      THEN Signal("SELL", "ICT_FVG", 90)
                      ELSE IF /\ fvg[1].direction = "BULLISH"
                              /\ price <= fvg[1].gap_top
                              /\ price >= fvg[1].gap_bottom
                      THEN Signal("BUY", "ICT_FVG", Min(90, 60 + rr_tenths))
                      ELSE IF fvg[1].direction = "BULLISH" /\ price > fvg[1].gap_top
                      THEN Signal("HOLD", "ICT_FVG", 50)
                      ELSE IF fvg[1].direction = "BEARISH"
                      THEN Signal("HOLD", "ICT_FVG", 40)
                      ELSE Signal("HOLD", "ICT_FVG", 30)

\* indicators.RSIResult; value is in whole percent, rounded down, and <<>>
\* where the float is NaN
RSIResult(value, is_oversold, is_overbought) ==
    [value |-> value, is_oversold |-> is_oversold, is_overbought |-> is_overbought]

\* prices.diff(): the change at position t, NaN at the first position
Delta(prices, t) == prices[t] - prices[t - 1]

\* delta.where(delta > 0, 0.0): the NaN of the first position becomes 0.0
Gain(prices, t) == IF t > 1 /\ Delta(prices, t) > 0 THEN Delta(prices, t) ELSE 0

\* (-delta).where(delta < 0, 0.0)
Loss(prices, t) == IF t > 1 /\ Delta(prices, t) < 0 THEN -Delta(prices, t) ELSE 0

RECURSIVE EwmGain(_, _, _)
\* gain.ewm(alpha=1/period, adjust=False).mean() at position t, in millionths
EwmGain(prices, t, period) ==
    IF t = 1 THEN Gain(prices, 1) * 1000000
    ELSE ((period - 1) * EwmGain(prices, t - 1, period) + Gain(prices, t) * 1000000)
         \div period

RECURSIVE EwmLoss(_, _, _)
\* loss.ewm(alpha=1/period, adjust=False).mean() at position t, in millionths
EwmLoss(prices, t, period) ==
    IF t = 1 THEN Loss(prices, 1) * 1000000
    ELSE ((period - 1) * EwmLoss(prices, t - 1, period) + Loss(prices, t) * 1000000)
         \div period

\* indicators.calculate_rsi(prices, period, buy_threshold, sell_threshold).
\* rs = avg_gain / avg_loss is inf without a loss and NaN without any change;
\* rs.replace([inf, -inf], 0) turns the inf into 0, and rsi = 100 - 100 / (1 + rs)
CalculateRsi(prices, period, buy_threshold, sell_threshold) ==
    IF prices = None \/ Len(prices[1]) < period + 1 THEN None
    ELSE LET avg_gain == EwmGain(prices[1], Len(prices[1]), period)
             avg_loss == EwmLoss(prices[1], Len(prices[1]), period)
         IN  IF avg_loss = 0 /\ avg_gain = 0 THEN Some(RSIResult(None, FALSE, FALSE))
             ELSE IF avg_loss = 0 THEN Some(RSIResult(Some(0), 0 < buy_threshold, 0 > sell_threshold))
             ELSE LET value == (100 * avg_gain) \div (avg_gain + avg_loss)
                  IN  Some(RSIResult(Some(value),
                                     100 * avg_gain < buy_threshold * (avg_gain + avg_loss),
                                     100 * avg_gain > sell_threshold * (avg_gain + avg_loss)))

\* market_analyzer.VolatilityRegime
VolatilityRegimes == {"LOW", "MEDIUM", "HIGH"}

\* market_analyzer.TrendRegime
TrendRegimes == {"STRONG_UP", "WEAK_UP", "RANGING", "WEAK_DOWN", "STRONG_DOWN"}

\* a regime table that trades a falling market of low volatility at a reduced size
GetRecommendedStrategyTradesLowDown(volatility, trend, rsi) ==
    IF volatility = "HIGH"
    THEN IF trend \in {"STRONG_UP", "STRONG_DOWN"} THEN <<"CONSERVATIVE_TREND", 50>>
         ELSE <<"SKIP", 0>>
    ELSE IF volatility = "LOW"
    THEN IF trend = "RANGING" THEN <<"ICT_MEAN_REVERSION", 100>>
         ELSE IF trend \in {"STRONG_UP", "WEAK_UP"} THEN <<"TREND_FOLLOWING", 120>>
         ELSE <<"SKIP", 50>>
    ELSE IF trend = "STRONG_UP"
    THEN IF rsi # None /\ rsi[1] < 60 THEN <<"ICT_CONFLUENCE", 100>>
         ELSE <<"CONSERVATIVE_TREND", 70>>
    ELSE IF trend = "RANGING"
    THEN IF rsi # None /\ 40 < rsi[1] /\ rsi[1] < 60 THEN <<"ICT_MEAN_REVERSION", 80>>
         ELSE <<"SKIP", 0>>
    ELSE IF trend \in {"WEAK_DOWN", "STRONG_DOWN"} THEN <<"SKIP", 0>>
    ELSE <<"ICT_CONFLUENCE", 70>>

\* MarketAnalyzer.get_recommended_strategy(volatility, trend, rsi): the
\* strategy name and the position multiplier in hundredths; a NaN rsi is <<>>
\* and fails every comparison
GetRecommendedStrategy(volatility, trend, rsi) ==
    IF volatility = "HIGH"
    THEN IF trend \in {"STRONG_UP", "STRONG_DOWN"} THEN <<"CONSERVATIVE_TREND", 50>>
         ELSE <<"SKIP", 0>>
    ELSE IF volatility = "LOW"
    THEN IF trend = "RANGING" THEN <<"ICT_MEAN_REVERSION", 100>>
         ELSE IF trend \in {"STRONG_UP", "WEAK_UP"} THEN <<"TREND_FOLLOWING", 120>>
         ELSE <<"SKIP", 0>>
    ELSE IF trend = "STRONG_UP"
    THEN IF rsi # None /\ rsi[1] < 60 THEN <<"ICT_CONFLUENCE", 100>>
         ELSE <<"CONSERVATIVE_TREND", 70>>
    ELSE IF trend = "RANGING"
    THEN IF rsi # None /\ 40 < rsi[1] /\ rsi[1] < 60 THEN <<"ICT_MEAN_REVERSION", 80>>
         ELSE <<"SKIP", 0>>
    ELSE IF trend \in {"WEAK_DOWN", "STRONG_DOWN"} THEN <<"SKIP", 0>>
    ELSE <<"ICT_CONFLUENCE", 70>>

\* StrategyFactory.get_position_size(capital, config, market_state), in
\* hundred-thousandths of a currency unit; position_size is config.position_size
\* in hundredths, market_state is <<>> or <<[volatility, position_size_multiplier]>>
GetPositionSize(capital, position_size, market_state) ==
    IF market_state = None THEN capital * position_size * 1000
    ELSE capital * position_size * market_state[1].position_size_multiplier
         * (IF market_state[1].volatility = "HIGH" THEN 5
            ELSE IF market_state[1].volatility = "LOW" THEN 12
            ELSE 10)

\* the candles the series are built from: a falling candle topping at 100, the
\* momentum candle 103..105, a rising candle bottoming at 110, a falling candle
\* that closes at 105 inside the band 100..110 without reaching 100, and a
\* falling candle of small body that reaches 100
CandleLow == Candle(100, 100, 96, 96)

CandleMomentum == Candle(103, 105, 103, 105)

CandleHigh == Candle(110, 112, 110, 112)

CandleRetrace == Candle(108, 108, 104, 105)

CandleFill == Candle(104, 108, 100, 103)

Candles == {CandleLow, CandleMomentum, CandleHigh, CandleRetrace, CandleFill}

\* the longest candle series
MaxCandles == 6

\* two candles: too few for every detector
ShortSeries == <<CandleLow, CandleMomentum>>

\* four candles whose last three leave the bullish gap 100..110
GapSeries == <<CandleLow, CandleLow, CandleMomentum, CandleHigh>>

\* ohlcv_df arguments of the strategies
Frames == {None, Some(ShortSeries), Some(GapSeries)}

\* current_price arguments of the strategies
StrategyPrices == {None, Some(0), Some(99), Some(100), Some(102), Some(108), Some(120)}

\* precomputed ob_result arguments: none, no block, a bullish block with the
\* zone 100..106, a bearish block with the zone 114..118
ObResults ==
    {None, Some(OrderBlockNotFound),
     Some(OrderBlockResult(TRUE, "BULLISH", 100, 106, 100, 2, 1)),
     Some(OrderBlockResult(TRUE, "BEARISH", 118, 118, 114, 2, 1))}

\* precomputed fvg_result arguments: none, no gap, the bullish gap 100..110 of
\* GapSeries, a bearish gap 100..110
FvgResults ==
    {None, Some(FVGNotFound),
     Some(FVGResult(TRUE, "BULLISH", 110, 100, 103, 105, 3)),
     Some(FVGResult(TRUE, "BEARISH", 110, 100, 107, 105, 3))}

\* fvg_result arguments of FVGStrategy.analyze: those, and the bullish gap
\* 100..110 left by a momentum candle that traded wholly above it (low 121,
\* high 125)
FvgStrategyResults ==
    FvgResults \cup {Some(FVGResult(TRUE, "BULLISH", 110, 100, 121, 125, 3))}

\* precomputed lp_result arguments
LpResults ==
    {None, Some(LiquidityPoolNotFound), Some(LiquidityPoolAt("SWING_LOW", 96))}

\* the ICT strategies the repository builds: HybridStrategy's and the default
ICTConfigs == {ICTConfig(50, 200, 200, 100), ICTConfig(80, 200, 200, 100)}

\* the arguments of one ICTStrategy.analyze call
ICTArgs(cfg, ohlcv_df, current_price, entry_price, in_position, ob_result, fvg_result, lp_result, rounds_down) ==
    [cfg |-> cfg, ohlcv_df |-> ohlcv_df, current_price |-> current_price,
     entry_price |-> entry_price, in_position |-> in_position, ob_result |-> ob_result,
     fvg_result |-> fvg_result, lp_result |-> lp_result, rounds_down |-> rounds_down]

\* the detections handed to ICTStrategy.analyze: all left to the strategy, or
\* all precomputed
Detections ==
    {<<None, None, None>>}
    \cup ((ObResults \ {None}) \X (FvgResults \ {None}) \X (LpResults \ {None}))

\* calls of ICTStrategy.analyze: without a position, over the frames and the
\* detections; and flagged in_position, without an entry price, with entry
\* price 0 and entered at 100, on a frame where every detection is bullish
ICTInputs ==
    {ICTArgs(cfg, df, price, None, FALSE, det[1], det[2], det[3], rd) :
        cfg \in ICTConfigs, df \in Frames,
        price \in {None, Some(0), Some(102), Some(108), Some(120)},
        det \in Detections, rd \in BOOLEAN}
    \cup {ICTArgs(cfg, Some(GapSeries), price, entry, TRUE,
                  Some(OrderBlockResult(TRUE, "BULLISH", 100, 106, 100, 2, 1)),
                  Some(FVGResult(TRUE, "BULLISH", 110, 100, 103, 105, 3)),
                  Some(LiquidityPoolAt("SWING_LOW", 96)), FALSE) :
            cfg \in ICTConfigs, price \in StrategyPrices,
            entry \in {None, Some(0), Some(100)}}

\* close series for calculate_rsi: 20 rising, flat and falling values, 20
\* values that rise with one down-tick, 14 values, and every series of 3 or 4
\* values over 1..3
RsiSeries ==
    {[i \in 1..20 |-> 100 + i], [i \in 1..20 |-> 100], [i \in 1..20 |-> 100 - i],
     [i \in 1..20 |-> IF i = 10 THEN 100 ELSE 100 + i], [i \in 1..14 |-> 100 + i]}
    \cup [1..3 -> 1..3] \cup [1..4 -> 1..3]

\* rsi arguments of the regime table: NaN and values around 40 and 60
RsiLevels == {None, Some(30), Some(40), Some(50), Some(60), Some(70)}

\* lookback arguments of detect_order_block
OrderBlockLookbacks == {5, 6}

\* lookback and swing_period arguments of detect_liquidity_pool
LiquidityPoolLookbacks == {4, 6}

SwingPeriods == {1, 2}

\* the call before any call
NoStrategyCall == [fn |-> "", args |-> <<>>, result |-> <<>>]

SignalsAtRest ==
    /\ ohlcv = <<>>
    /\ sret = NoStrategyCall

\* ICTStrategy.analyze
CallICTAnalyze(a) ==
    /\ sret' = [fn |-> "ICTStrategy.analyze", args |-> a,
                result |-> ICTStrategyAnalyze(a.cfg, a.ohlcv_df, a.current_price,
                                              a.entry_price, a.in_position, a.ob_result,
                                              a.fvg_result, a.lp_result, a.rounds_down)]
    /\ UNCHANGED ohlcv

\* FVGStrategy.analyze
CallFVGAnalyze(ohlcv_df, current_price, fvg_result) ==
    /\ sret' = [fn |-> "FVGStrategy.analyze",
                args |-> [ohlcv_df |-> ohlcv_df, current_price |-> current_price,
                          fvg_result |-> fvg_result],
                result |-> FVGStrategyAnalyze(5, ohlcv_df, current_price, fvg_result)]
    /\ UNCHANGED ohlcv

\* ICTStrategy.calculate_confluence_score
CallConfluenceScore(ob_result, fvg_result, lp_result, current_price) ==
    /\ sret' = [fn |-> "calculate_confluence_score",
                args |-> [ob_result |-> ob_result, fvg_result |-> fvg_result,
                          lp_result |-> lp_result, current_price |-> current_price],
                result |-> CalculateConfluenceScore(ob_result, fvg_result, lp_result,
                                                    current_price)]
    /\ UNCHANGED ohlcv

\* MarketAnalyzer.get_recommended_strategy
CallRecommendedStrategy(volatility, trend, rsi) ==
    /\ sret' = [fn |-> "get_recommended_strategy",
                args |-> [volatility |-> volatility, trend |-> trend, rsi |-> rsi],
                result |-> GetRecommendedStrategy(volatility, trend, rsi)]
    /\ UNCHANGED ohlcv

\* StrategyFactory.get_position_size on the market state that MarketAnalyzer.analyze
\* builds from get_recommended_strategy
CallPositionSize(capital, position_size, volatility, trend, rsi) ==
    LET recommended == GetRecommendedStrategy(volatility, trend, rsi)
        market_state == [volatility |-> volatility, trend |-> trend,
                         recommended_strategy |-> recommended[1],
                         position_size_multiplier |-> recommended[2]]
    IN  /\ sret' = [fn |-> "get_position_size",
                    args |-> [capital |-> capital, position_size |-> position_size,
                              market_state |-> market_state],
                    result |-> GetPositionSize(capital, position_size, Some(market_state))]
        /\ UNCHANGED ohlcv

\* indicators.calculate_rsi
CallRsi(prices, period) ==
    /\ sret' = [fn |-> "calculate_rsi",
                args |-> [prices |-> prices, period |-> period],
                result |-> CalculateRsi(prices, period, 30, 70)]
    /\ UNCHANGED ohlcv

\* HybridStrategy.analyze, which leaves the composer's fields alone
CallHybridAnalyze(a) ==
    /\ sret' = [fn |-> "HybridStrategy.analyze", args |-> a,
                result |-> HybridAnalyze(daily_profit, a.df_1h, a.df_5m, a.current_price,
                                         a.in_position, a.entry_price,
                                         a.position_strategy).signal]
    /\ UNCHANGED ohlcv

\* a new candle arrives: the series handed to the detectors grows by one row
FetchCandle(c) ==
    /\ Len(ohlcv) < MaxCandles
    /\ ohlcv' = Append(ohlcv, c)
    /\ sret' = NoStrategyCall

\* indicators.detect_fvg on the series
CallDetectFvg(min_gap_percent) ==
    /\ sret' = [fn |-> "detect_fvg",
                args |-> [df |-> ohlcv, min_gap_percent |-> min_gap_percent],
                result |-> DetectFvg(Some(ohlcv), min_gap_percent, 50)]
    /\ UNCHANGED ohlcv

\* indicators.detect_order_block on the series
CallDetectOrderBlock(lookback) ==
    /\ sret' = [fn |-> "detect_order_block",
                args |-> [df |-> ohlcv, lookback |-> lookback],
                result |-> DetectOrderBlock(Some(ohlcv), lookback, 2, 50)]
    /\ UNCHANGED ohlcv

\* indicators.detect_liquidity_pool on the series
CallDetectLiquidityPool(lookback, swing_period) ==
    /\ sret' = [fn |-> "detect_liquidity_pool",
                args |-> [df |-> ohlcv, lookback |-> lookback, swing_period |-> swing_period],
                result |-> DetectLiquidityPool(Some(ohlcv), lookback, swing_period)]
    /\ UNCHANGED ohlcv

----------------------------------------------------------------------------
(* The orchestrator: CryptoBotOrchestrator.monitor_loop around               *)
(* AutoTrader.run_once.  The orchestrator constructs its own RiskManager()   *)
(* next to the engine's; both use the default stats_file.                    *)

\* an order book as OrderbookScalpingStrategy.analyze reads it: bid_ask_ratio
\* in hundredths, the number of orderbook_units, and the best ask and bid
Orderbook(bid_ask_ratio, units, ask_price, bid_price) ==
    [bid_ask_ratio |-> bid_ask_ratio, units |-> units, ask_price |-> ask_price, bid_price |-> bid_price]

\* `if in_position and entry_price and entry_price > 0:`
ScalpingHoldsPosition(in_position, entry_price) ==
    in_position /\ Truthy(entry_price) /\ entry_price[1] > 0

\* OrderbookScalpingStrategy.analyze
OrderbookScalpingAnalyze(orderbook, current_price, entry_price, in_position) ==
    IF orderbook = None \/ current_price = None
    THEN Signal("HOLD", StrategyName, 0)
    ELSE LET ob == orderbook[1]
             price == current_price[1]
         IN  IF ScalpingHoldsPosition(in_position, entry_price)
             THEN LET entry == entry_price[1]
                  IN  IF (price - entry) * 10000 >= SCALPING_TAKE_PROFIT * entry
                      THEN Signal("SELL", StrategyName, 95)
                      ELSE IF (price - entry) * 1000 <= -(SCALPING_STOP_LOSS * entry)
                      THEN Signal("SELL", StrategyName, 95)
                      ELSE Signal("HOLD", StrategyName, 60)
             ELSE IF ob.units = 0
             THEN Signal("HOLD", StrategyName, 0)
             ELSE IF ob.bid_price > 0 /\ (ob.ask_price - ob.bid_price) * 1000 > 5 * ob.bid_price
             THEN Signal("HOLD", StrategyName, 0)
             ELSE IF ob.bid_ask_ratio >= SCALPING_BID_ASK_RATIO
             THEN Signal("BUY", StrategyName,
                         Min(95, 65 + (ob.bid_ask_ratio - SCALPING_BID_ASK_RATIO) \div 10))
             ELSE Signal("HOLD", StrategyName, 40)

\* order books the exchange returns: a thin bid side, a bid wall, a bid wall
\* behind a wide spread, a book without units
Orderbooks == {Orderbook(100, 1, 10010, 10000), Orderbook(250, 1, 10010, 10000), Orderbook(250, 1, 10100, 10000), Orderbook(250, 0, 0, 0)}

\* entry_price arguments of OrderbookScalpingStrategy.analyze: none, the 0 of
\* an unknown average price, and entries below, at and above the price
ScalpingEntries == {None, Some(0), Some(5000), Some(10000), Some(40000)}

\* OrderbookScalpingStrategy.analyze, called on its own
CallScalpingAnalyze(orderbook, current_price, entry_price, in_position) ==
    /\ sret' = [fn |-> "OrderbookScalpingStrategy.analyze",
                args |-> [orderbook |-> orderbook, current_price |-> current_price,
                          entry_price |-> entry_price, in_position |-> in_position],
                result |-> OrderbookScalpingAnalyze(orderbook, current_price, entry_price,
                                                    in_position)]
    /\ UNCHANGED ohlcv

\* prices the exchange quotes while the monitor loop runs
BotPrices == {9000, 10000}

\* the monitor loop before its first iteration
NoCycle == [gate |-> "none", wrote |-> FALSE, balances |-> [s \in Symbols |-> 0]]

\* CryptoBotOrchestrator.__init__: AutoTrader() with its RiskManager(), then
\* the orchestrator's own RiskManager()
BotAtRest ==
    /\ orch_stats = LoadTodayStats(None, 0)
    /\ cycle = NoCycle

\* the process is started again: both RiskManager instances load the file and
\* the engine's position map is empty until start() reads the balances
OrchestratorConstruct ==
    /\ pc = "idle"
    /\ pc' = "created"
    /\ current_stats' = LoadTodayStats(stats_file, today)
    /\ orch_stats' = LoadTodayStats(stats_file, today)
    /\ positions' = [s \in Symbols |-> NoPosition]
    /\ cycle' = NoCycle
    /\ call' = NoCall
    /\ events' = <<>>
    /\ positions0' = [s \in Symbols |-> NoPosition]
    /\ outcome' = TradeResult(TRUE, "HOLD", "")
    /\ ret' = Call("__init__", None, 0, "", None, current_stats, NoResult)
    /\ written_on' = today
    /\ UNCHANGED <<kind, today, stats_file, stopped_on, mode, balances>>

\* monitor_loop, one iteration up to run_once: self.risk_manager.can_trade()
\* on the orchestrator's ledger; a denial sleeps until the next iteration
MonitorLoop ==
    LET stats == Rollover(orch_stats, today)
        gate == Gates("crypto", stats, None)
    IN  /\ pc = "idle"
        /\ orch_stats' = stats
        /\ stats_file' = IF orch_stats.date # today THEN Some(stats) ELSE stats_file
        /\ cycle' = [gate |-> IF gate.allowed THEN "allowed" ELSE "denied",
                     wrote |-> orch_stats.date # today, balances |-> balances]
        /\ pc' = IF gate.allowed THEN "run_once" ELSE "idle"
        /\ UNCHANGED <<kind, today, current_stats, ret, written_on, stopped_on>>
        /\ UNCHANGED <<mode, positions, balances, call, events, positions0, outcome>>

\* run_once for one symbol, up to execute_signal: AutoTrader.analyze on the
\* position the engine remembers.  No order book, no price or a HOLD signal
\* ends the iteration.
RunOnce(symbol, orderbook, current_price) ==
    LET position == positions[symbol]
        signal == OrderbookScalpingAnalyze(orderbook, current_price,
                                           Some(position.entry_price),
                                           position.in_position)
    IN  /\ pc = "run_once"
        /\ IF orderbook = None \/ current_price = None \/ signal.action = "HOLD"
           THEN /\ pc' = "idle"
                /\ UNCHANGED call
           ELSE /\ pc' = "signal"
                /\ call' = [symbol |-> symbol, action |-> signal.action,
                            amount |-> 0, price |-> 0]
        /\ UNCHANGED <<mode, positions, balances, events, positions0, outcome>>
        /\ UNCHANGED ledgerVars
        /\ UNCHANGED <<orch_stats, cycle>>

\* run_once, the execute_signal(symbol, signal) it makes for that signal
RunOnceExecute(price) ==
    /\ ExecuteSignalFrom("signal", call.symbol, call.action, None, price)
    /\ UNCHANGED <<orch_stats, cycle>>

----------------------------------------------------------------------------
(* The specifications: the risk ledger alone (Spec), the trading engine    *)
(* with its ledger and the exchange (SpecEngine), the hybrid composer       *)
(* (SpecHybrid), the strategies and pure indicators called on their own     *)
(* (SpecSignals), the detectors over a growing candle series                *)
(* (SpecCandles), and the orchestrator's monitor loop around the engine     *)
(* (SpecBot).                                                               *)

LedgerInit ==
    /\ today = 0
    /\ stats_file = None
    /\ current_stats = LoadTodayStats(None, 0)
    /\ ret = [op |-> "__init__", amount |-> None, profit |-> 0, strategy |-> "",
              won |-> None, pre |-> NewStats(0), day |-> 0, written |-> 0,
              allowed |-> FALSE, reason |-> <<"", 0, 0>>]
    /\ written_on = 0
    /\ stopped_on = None

EngineAtRest ==
    /\ mode = "semi"
    /\ positions = [s \in Symbols |-> NoPosition]
    /\ balances = [s \in Symbols |-> 0]
    /\ pc = "created"
    /\ call = NoCall
    /\ events = <<>>
    /\ positions0 = [s \in Symbols |-> NoPosition]
    /\ outcome = TradeResult(TRUE, "HOLD", "")

\* HybridStrategy.__init__
HybridConstructed ==
    /\ daily_profit = 0
    /\ trade_count = 0
    /\ last_reset = 0
    /\ hret = [op |-> "__init__", profit_percent |-> 0, args |-> NoArgs, before |-> 0,
               day |-> 0, multiplier |-> 0, consulted |-> <<>>, signal |-> NoSignal]

Init ==
    /\ kind \in Kinds
    /\ LedgerInit
    /\ EngineAtRest
    /\ HybridConstructed
    /\ SignalsAtRest
    /\ BotAtRest

Next ==
    \/ Construct /\ UNCHANGED <<engineVars, hybridVars, signalVars, botVars>>
    \/ \E amount \in GateAmounts(kind) :
            CanTrade(amount) /\ UNCHANGED <<engineVars, hybridVars, signalVars, botVars>>
    \/ \E t \in TradeArgs(kind) :
            RecordTrade(t.amount, t.profit, t.strategy, t.won)
            /\ UNCHANGED <<engineVars, hybridVars, signalVars, botVars>>
    \/ GetDailyStats /\ UNCHANGED <<engineVars, hybridVars, signalVars, botVars>>
    \/ GetRemainingCapacity /\ UNCHANGED <<engineVars, hybridVars, signalVars, botVars>>
    \/ EmergencyStop /\ UNCHANGED <<engineVars, hybridVars, signalVars, botVars>>
    \/ DayChange /\ UNCHANGED <<engineVars, hybridVars, signalVars, botVars>>

Spec == Init /\ [][Next]_vars

\* AutoTrader.__init__ with its own RiskManager(); the account may already
\* hold coins
EngineInit ==
    /\ kind = "crypto"
    /\ LedgerInit
    /\ mode \in {"semi", "full"}
    /\ positions = [s \in Symbols |-> NoPosition]
    /\ balances \in [Symbols -> 0..MaxVolume]
    /\ pc = "created"
    /\ call = NoCall
    /\ events = <<>>
    /\ positions0 = [s \in Symbols |-> NoPosition]
    /\ outcome = TradeResult(TRUE, "HOLD", "")
    /\ HybridConstructed
    /\ SignalsAtRest
    /\ BotAtRest

EngineNext ==
    \/ \E read_ok \in BOOLEAN, avg \in [Symbols -> AvgPrices] :
            Start(read_ok, avg) /\ UNCHANGED <<hybridVars, signalVars, botVars>>
    \/ \E symbol \in Symbols, action \in SignalActions, amount \in SignalAmounts,
          price \in {None} \cup {Some(p) : p \in Prices} :
            ExecuteSignal(symbol, action, amount, price) /\ UNCHANGED <<hybridVars, signalVars, botVars>>
    \/ \E ok \in BOOLEAN : ExecuteBuy(ok) /\ UNCHANGED <<hybridVars, signalVars, botVars>>
    \/ \E balance \in 0..MaxVolume, avg_buy_price \in AvgPrices, ok \in BOOLEAN :
            ExecuteSell(balance, avg_buy_price, ok) /\ UNCHANGED <<hybridVars, signalVars, botVars>>
    \/ \E symbol \in Symbols, volume \in 0..MaxVolume :
            ExternalTrade(symbol, volume) /\ UNCHANGED <<hybridVars, signalVars, botVars>>
    \/ DayChange /\ UNCHANGED <<engineVars, hybridVars, signalVars, botVars>>

SpecEngine == EngineInit /\ [][EngineNext]_vars

HybridInit ==
    /\ kind = "crypto"
    /\ LedgerInit
    /\ EngineAtRest
    /\ HybridConstructed
    /\ SignalsAtRest
    /\ BotAtRest

HybridNext ==
    \/ ResetDaily /\ UNCHANGED <<ledgerVars, engineVars, signalVars, botVars>>
    \/ \E p \in ProfitPercents : UpdateProfit(p) /\ UNCHANGED <<ledgerVars, engineVars, signalVars, botVars>>
    \/ GetPositionSizeMultiplier /\ UNCHANGED <<ledgerVars, engineVars, signalVars, botVars>>
    \/ \E a \in HybridInputs : Analyze(a) /\ UNCHANGED <<ledgerVars, engineVars, signalVars, botVars>>
    \/ DayChange /\ UNCHANGED <<engineVars, daily_profit, trade_count, last_reset, hret, signalVars, botVars>>

SpecHybrid == HybridInit /\ [][HybridNext]_vars

\* the strategies and the pure indicators, called on their own
SignalsInit ==
    /\ kind = "crypto"
    /\ LedgerInit
    /\ EngineAtRest
    /\ HybridConstructed
    /\ SignalsAtRest
    /\ BotAtRest

SignalsNext ==
    \/ \E a \in ICTInputs :
            CallICTAnalyze(a) /\ UNCHANGED <<ledgerVars, engineVars, hybridVars, botVars>>
    \/ \E df \in Frames, price \in StrategyPrices, fvg \in FvgStrategyResults :
            CallFVGAnalyze(df, price, fvg)
            /\ UNCHANGED <<ledgerVars, engineVars, hybridVars, botVars>>
    \/ \E ob \in ObResults, fvg \in FvgResults, lp \in LpResults, price \in StrategyPrices :
            CallConfluenceScore(ob, fvg, lp, price)
            /\ UNCHANGED <<ledgerVars, engineVars, hybridVars, botVars>>
    \/ \E v \in VolatilityRegimes, t \in TrendRegimes, rsi \in RsiLevels :
            CallRecommendedStrategy(v, t, rsi)
            /\ UNCHANGED <<ledgerVars, engineVars, hybridVars, botVars>>
    \/ \E v \in VolatilityRegimes, t \in TrendRegimes, rsi \in RsiLevels :
            CallPositionSize(1000, 25, v, t, rsi)
            /\ UNCHANGED <<ledgerVars, engineVars, hybridVars, botVars>>
    \/ \E prices \in {None} \cup {Some(s) : s \in RsiSeries}, period \in {2, 14} :
            CallRsi(prices, period) /\ UNCHANGED <<ledgerVars, engineVars, hybridVars, botVars>>
    \/ \E a \in {x \in HybridInputs : x.in_position \/ (x.df_1h = None /\ x.df_5m = None)} :
            CallHybridAnalyze(a) /\ UNCHANGED <<ledgerVars, engineVars, hybridVars, botVars>>
    \/ \E orderbook \in {None, Some(Orderbook(100, 1, 10010, 10000)), Some(Orderbook(250, 1, 10010, 10000))},
          price \in {None, Some(10000)}, entry \in ScalpingEntries, in_position \in BOOLEAN :
            CallScalpingAnalyze(orderbook, price, entry, in_position)
            /\ UNCHANGED <<ledgerVars, engineVars, hybridVars, botVars>>

SpecSignals == SignalsInit /\ [][SignalsNext]_vars

\* the detectors over a candle series that grows
CandlesInit ==
    /\ kind = "crypto"
    /\ LedgerInit
    /\ EngineAtRest
    /\ HybridConstructed
    /\ SignalsAtRest
    /\ BotAtRest

CandlesNext ==
    \/ \E c \in Candles :
            FetchCandle(c) /\ UNCHANGED <<ledgerVars, engineVars, hybridVars, botVars>>
    \/ CallDetectFvg(5) /\ UNCHANGED <<ledgerVars, engineVars, hybridVars, botVars>>
    \/ \E lookback \in OrderBlockLookbacks :
            CallDetectOrderBlock(lookback)
            /\ UNCHANGED <<ledgerVars, engineVars, hybridVars, botVars>>
    \/ \E lookback \in LiquidityPoolLookbacks, swing_period \in SwingPeriods :
            CallDetectLiquidityPool(lookback, swing_period)
            /\ UNCHANGED <<ledgerVars, engineVars, hybridVars, botVars>>

SpecCandles == CandlesInit /\ [][CandlesNext]_vars

\* the orchestrator's monitor loop around the engine, its two ledgers on one
\* stats file, and the exchange
BotInit ==
    /\ kind = "crypto"
    /\ LedgerInit
    /\ mode \in {"semi", "full"}
    /\ positions = [s \in Symbols |-> NoPosition]
    /\ balances \in [Symbols -> 0..MaxVolume]
    /\ pc = "created"
    /\ call = NoCall
    /\ events = <<>>
    /\ positions0 = [s \in Symbols |-> NoPosition]
    /\ outcome = TradeResult(TRUE, "HOLD", "")
    /\ HybridConstructed
    /\ SignalsAtRest
    /\ BotAtRest

BotNext ==
    \/ \E read_ok \in BOOLEAN, avg \in [Symbols -> AvgPrices] :
            Start(read_ok, avg) /\ UNCHANGED <<hybridVars, signalVars, botVars>>
    \/ OrchestratorConstruct /\ UNCHANGED <<hybridVars, signalVars>>
    \/ MonitorLoop /\ UNCHANGED <<hybridVars, signalVars>>
    \/ \E symbol \in Symbols, orderbook \in {None} \cup {Some(o) : o \in Orderbooks},
          price \in {None} \cup {Some(p) : p \in BotPrices} :
            RunOnce(symbol, orderbook, price) /\ UNCHANGED <<hybridVars, signalVars>>
    \/ \E price \in {None} \cup {Some(p) : p \in BotPrices} :
            RunOnceExecute(price) /\ UNCHANGED <<hybridVars, signalVars>>
    \/ \E ok \in BOOLEAN : ExecuteBuy(ok) /\ UNCHANGED <<hybridVars, signalVars, botVars>>
    \/ \E balance \in 0..MaxVolume, avg_buy_price \in AvgPrices, ok \in BOOLEAN :
            ExecuteSell(balance, avg_buy_price, ok) /\ UNCHANGED <<hybridVars, signalVars, botVars>>
    \/ \E symbol \in Symbols, volume \in 0..MaxVolume :
            ExternalTrade(symbol, volume) /\ UNCHANGED <<hybridVars, signalVars, botVars>>
    \/ DayChange /\ UNCHANGED <<engineVars, hybridVars, signalVars, botVars>>

SpecBot == BotInit /\ [][BotNext]_vars

----------------------------------------------------------------------------
(* Properties of the risk ledger.  In every state ret describes the last    *)
(* ledger call: ret.pre is the record it found, ret.day the date it saw,    *)
(* and current_stats is the record it left (DayChange writes neither).      *)

IsCanTrade == ret.op = "can_trade"

StaleCall == ret.pre.date # ret.day

\* an amount that passes the per-trade cap and whose estimated loss alone
\* stays within the daily loss limit
WithinLimits(k, amount) ==
    \/ amount = None
    \/ /\ amount[1] <= MaxTradeAmountOf(k)
       /\ IF k = "crypto"
          THEN amount[1] * SCALPING_STOP_LOSS * 12 <= MaxDailyLossOf(k) * 10000
          ELSE amount[1] <= MaxDailyLossOf(k)

\* C1: a can_trade call that finds a record of another date leaves the zeroed
\* record of today and evaluates the limits on it: an amount within the
\* limits is allowed with reason "OK", whatever the old record held.
C1_RolloverBeforeLimits ==
    (IsCanTrade /\ StaleCall) =>
        /\ current_stats.date = ret.day
        /\ current_stats.total_trades = 0
        /\ current_stats.total_wagered = 0
        /\ current_stats.total_profit = 0
        /\ current_stats.win_count = 0
        /\ current_stats.loss_count = 0
        /\ WithinLimits(kind, ret.amount) => (ret.allowed /\ ret.reason = ReasonOk)

\* C1 witness: a record at its daily maximum with money wagered on it, dated
\* yesterday, was met by can_trade(amount), which allowed the trade
C1_Witness ==
    /\ IsCanTrade /\ StaleCall
    /\ ret.pre.total_trades >= MaxDailyTradesOf(kind)
    /\ ret.pre.total_wagered > 0
    /\ ret.amount # None /\ ret.amount[1] > 0
    /\ ret.allowed

\* C2: a can_trade call made while total_trades >= max_daily_trades,
\* on the same calendar day on which the record got that count, is denied.
C2_MonotonicDenial ==
    (IsCanTrade /\ ret.pre.total_trades >= MaxDailyTradesOf(kind)
        /\ ret.written = ret.day)
        => ~ret.allowed

\* C3: on the crypto ledger can_trade allows exactly when every gate passes on
\* the record it evaluates, and a denial carries the reason of the first gate
\* that fails, in the order count, loss, amount, potential loss.
C3_GateTable ==
    (IsCanTrade /\ kind = "crypto") =>
        LET s == current_stats
            given == ret.amount # None
            a == IF given THEN ret.amount[1] ELSE 0
            countOk == s.total_trades < MAX_DAILY_TRADES
            lossOk == s.total_profit >= -MAX_DAILY_LOSS
            amountOk == given => a <= MAX_TRADE_AMOUNT
            potentialOk == given =>
                s.total_profit * 10000 - a * SCALPING_STOP_LOSS * 12
                    >= -(MAX_DAILY_LOSS * 10000)
        IN  /\ ret.allowed <=> (countOk /\ lossOk /\ amountOk /\ potentialOk)
            /\ ret.allowed => ret.reason = ReasonOk
            /\ ~countOk => ret.reason[1] = ReasonCount(kind)[1]
            /\ (countOk /\ ~lossOk) => ret.reason[1] = ReasonLoss(s)[1]
            /\ (countOk /\ lossOk /\ ~amountOk)
                    => ret.reason[1] = ReasonAmount(kind, a)[1]
            /\ (countOk /\ lossOk /\ amountOk /\ ~potentialOk)
                    => ret.reason[1] = ReasonPotential(kind, s)[1]
            /\ Cardinality({ReasonOk[1], ReasonCount(kind)[1], ReasonLoss(s)[1],
                            ReasonAmount(kind, a)[1], ReasonPotential(kind, s)[1]}) = 5

\* C3 witness: the forward-looking check alone denies: the record is inside the
\* loss limit, the amount inside the cap, and the estimated loss breaches
C3_Witness ==
    /\ IsCanTrade /\ kind = "crypto"
    /\ ~ret.allowed
    /\ ret.reason[1] = "potential loss over limit"
    /\ current_stats.total_profit >= -MAX_DAILY_LOSS
    /\ current_stats.total_trades < MAX_DAILY_TRADES

\* whether a record_trade call counts as a win
C4_IsWin == ret.won = Some(TRUE) \/ (ret.won = None /\ ret.profit > 0)

\* C4: record_trade adds 1 to total_trades, amount to total_wagered, profit to
\* total_profit, and 1 to exactly one of win_count and loss_count.
C4_RecordTrade ==
    ret.op = "record_trade" =>
        /\ current_stats.total_trades = ret.pre.total_trades + 1
        /\ current_stats.total_wagered = ret.pre.total_wagered + ret.amount[1]
        /\ current_stats.total_profit = ret.pre.total_profit + ret.profit
        /\ current_stats.win_count
                = ret.pre.win_count + (IF C4_IsWin THEN 1 ELSE 0)
        /\ current_stats.loss_count
                = ret.pre.loss_count + (IF C4_IsWin THEN 0 ELSE 1)

\* C4 witness: a trade with profit 0 and won not given was recorded on a
\* record already past its daily maximum
C4_Witness ==
    /\ ret.op = "record_trade"
    /\ ret.pre.total_trades > MaxDailyTradesOf(kind)
    /\ ret.won = None /\ ret.profit = 0

\* C5, as the specification states it: no call other than record_trade changes the record.
C5_SoleWriter ==
    ret.op \in {"can_trade", "emergency_stop", "get_remaining_capacity",
                "get_daily_stats"}
        => current_stats = ret.pre

\* C5, as the code has it: get_daily_stats changes nothing; can_trade and
\* get_remaining_capacity change the record only by replacing one of another
\* date by today's zeroed record; emergency_stop changes total_trades only,
\* to the daily maximum.
C5_WritersOfDailyStats ==
    /\ ret.op = "get_daily_stats" => current_stats = ret.pre
    /\ ret.op \in {"can_trade", "get_remaining_capacity"} =>
            current_stats = (IF ret.pre.date = ret.day THEN ret.pre
                             ELSE NewStats(ret.day))
    /\ ret.op = "emergency_stop" =>
            current_stats = [ret.pre EXCEPT !.total_trades = MaxDailyTradesOf(kind)]

\* C5 witness: an emergency stop lowered the count of a record with losses
C5_Witness ==
    /\ ret.op = "emergency_stop"
    /\ ret.pre.total_trades > current_stats.total_trades
    /\ current_stats.total_profit < 0

\* C6: a can_trade call made on the day of the last emergency
\* stop is denied, and one that meets a record of an earlier date is not
\* denied for the trade count.
C6_StopHoldsForTheDay ==
    /\ (IsCanTrade /\ stopped_on = Some(ret.day)) => ~ret.allowed
    /\ (IsCanTrade /\ StaleCall) => ret.reason[1] # ReasonCount(kind)[1]

----------------------------------------------------------------------------
(* Properties of the trading engine.  events is what the execute_signal     *)
(* call in progress (pc is "buy" or "sell") or the last one (pc = "idle")   *)
(* did, in order.                                                           *)

OrderEvents == {"buy ok", "buy failed", "sell ok", "sell failed"}

OrdersAt == {i \in 1..Len(events) : events[i] \in OrderEvents}

RecordsAt == {i \in 1..Len(events) : events[i] = "record_trade"}

\* C7: in full mode every order is preceded in its call by a can_trade that
\* allowed; a call whose can_trade denied places no order, changes no position
\* and records nothing; and when the call has returned, a successful order is
\* followed by exactly one record_trade and a failed order by none.
C7_GateOrderRecord ==
    /\ \A i \in OrdersAt :
            mode = "full" /\ i = 2 /\ events[1] = "can_trade allowed"
    /\ (events # <<>> /\ events[1] = "can_trade denied") =>
            /\ events = <<"can_trade denied">>
            /\ pc = "idle"
            /\ positions = positions0
            /\ ret.op = "can_trade" /\ ~ret.allowed
            /\ ~outcome.success
    /\ \A i \in RecordsAt : i = 3 /\ events[2] \in {"buy ok", "sell ok"}
    /\ pc = "idle" =>
            \A i \in OrdersAt :
                IF events[i] \in {"buy ok", "sell ok"}
                THEN /\ RecordsAt = {i + 1}
                     /\ ret.op = "record_trade"
                     /\ current_stats.total_trades = ret.pre.total_trades + 1
                ELSE RecordsAt = {} /\ ret.op = "can_trade"

\* C7 witness: a sell order succeeded after an allowed gate and its loss was
\* recorded, once, before the call returned
C7_Witness ==
    /\ pc = "idle" /\ mode = "full"
    /\ events = <<"can_trade allowed", "sell ok", "record_trade">>
    /\ ret.op = "record_trade" /\ ret.profit < 0

----------------------------------------------------------------------------
(* Properties of the hybrid composer.  hret describes the last composer     *)
(* call; calls that only read leave daily_profit as they found it.          *)

IsAnalyze == hret.op = "analyze"

\* an analyze call with a price and without a position
EntryCall == IsAnalyze /\ hret.args.current_price # None /\ ~hret.args.in_position

\* what the ICT strategy returns on the 1h frame of the call
IctReturned ==
    IF hret.args.df_1h # None THEN ICTAnalyze(hret.args.df_1h[1])
    ELSE SubSignal("HOLD", 0)

\* what the trend strategy returns on the 5m frame of the call
TrendReturned ==
    IF hret.args.df_5m # None THEN TrendAnalyze(hret.args.df_5m[1])
    ELSE SubSignal("HOLD", 0)

IctBuy70 == IctReturned.action = "BUY" /\ IctReturned.confidence >= 70

TrendBuy60 == TrendReturned.action = "BUY" /\ TrendReturned.confidence >= 60

\* C8: get_position_size_multiplier returns 0.5 when daily_profit >=
\* daily_target, 0.75 when 0.7 * daily_target <= daily_profit < daily_target
\* and 1.0 otherwise, after any sequence of update_profit and reset_daily.
C8_MultiplierTiers ==
    hret.op = "get_position_size_multiplier" =>
        /\ daily_profit >= DAILY_TARGET => hret.multiplier = 50
        /\ (daily_profit * 10 >= DAILY_TARGET * 7 /\ daily_profit < DAILY_TARGET)
                => hret.multiplier = 75
        /\ daily_profit * 10 < DAILY_TARGET * 7 => hret.multiplier = 100
        /\ daily_profit = 120 => hret.multiplier = 50

\* C8 witness: the multiplier was asked for with the profit exactly at 70% of
\* the target, after a reset on a later day and two updates
C8_Witness ==
    /\ hret.op = "get_position_size_multiplier"
    /\ daily_profit * 10 = DAILY_TARGET * 7
    /\ trade_count >= 2
    /\ last_reset > 0

\* C9, as the specification states it: on an analyze call with a price and no
\* position, the ICT strategy is consulted first; when it returns BUY with
\* confidence >= 0.7 the result is that BUY tagged ICT and the trend strategy
\* is not consulted; otherwise a trend BUY with confidence >= 0.6 is taken,
\* tagged TREND; otherwise the result is HOLD.
C9_IctFirst ==
    EntryCall =>
        /\ hret.args.df_1h # None =>
                (hret.consulted # <<>> /\ hret.consulted[1] = "ICT")
        /\ IctBuy70 =>
                /\ hret.signal.action = "BUY" /\ hret.signal.strategy_type = "ICT"
                /\ hret.consulted = <<"ICT">>
        /\ (~IctBuy70 /\ TrendBuy60) =>
                hret.signal.action = "BUY" /\ hret.signal.strategy_type = "TREND"
        /\ (~IctBuy70 /\ ~TrendBuy60) => hret.signal.action = "HOLD"

\* C9, as the code has it: the ICT strategy is consulted, first, only while the
\* daily target is not achieved (daily_profit < daily_target); then its BUY
\* with confidence >= 0.7 is returned tagged ICT without consulting the trend
\* strategy.  Once the target is achieved the ICT strategy is not consulted.
\* In both cases a trend BUY with confidence >= 0.6 is taken, tagged TREND,
\* when no ICT entry was taken, and otherwise the result is HOLD.
C9_IctFirstBelowTarget ==
    EntryCall =>
        LET below == daily_profit < DAILY_TARGET
            ict == below /\ IctBuy70
        IN  /\ (hret.args.df_1h # None /\ below) =>
                    (hret.consulted # <<>> /\ hret.consulted[1] = "ICT")
            /\ ~below => hret.consulted \in {<<>>, <<"TREND">>}
            /\ ict =>
                    /\ hret.signal.action = "BUY" /\ hret.signal.strategy_type = "ICT"
                    /\ hret.signal.confidence = IctReturned.confidence
                    /\ hret.consulted = <<"ICT">>
            /\ (~ict /\ TrendBuy60) =>
                    /\ hret.signal.action = "BUY" /\ hret.signal.strategy_type = "TREND"
                    /\ hret.signal.confidence = TrendReturned.confidence
            /\ (~ict /\ ~TrendBuy60) => hret.signal.action = "HOLD"

\* C9 witness: with the target achieved, an ICT BUY of confidence 0.9 was on
\* offer and the composer took the trend BUY
C9_Witness ==
    /\ EntryCall
    /\ daily_profit >= DAILY_TARGET
    /\ IctBuy70 /\ IctReturned.confidence = 90
    /\ hret.signal.action = "BUY" /\ hret.signal.strategy_type = "TREND"

\* the daily-target multiplier, in hundredths
C10_Tier ==
    IF daily_profit >= DAILY_TARGET THEN 50
    ELSE IF daily_profit * 10 >= DAILY_TARGET * 7 THEN 75
    ELSE 100

\* C10: every BUY the composer returns has position_size_ratio equal to the
\* base ratio of its strategy times the daily-target multiplier: 1.0 below 70%
\* of the target, 0.75 from 70% up to the target, 0.5 once the target is met.
C10_EntrySizing ==
    (IsAnalyze /\ hret.signal.action = "BUY") =>
        /\ hret.signal.strategy_type \in {"ICT", "TREND"}
        /\ hret.signal.strategy_type = "ICT" =>
                hret.signal.position_size_ratio = ICT_POSITION_RATIO * C10_Tier
        /\ hret.signal.strategy_type = "TREND" =>
                hret.signal.position_size_ratio = TREND_POSITION_RATIO * C10_Tier

\* an analyze call for an open position that carries the strategy that
\* opened it
ExitCall ==
    /\ IsAnalyze
    /\ hret.args.current_price # None
    /\ hret.args.in_position
    /\ hret.args.entry_price # None /\ hret.args.entry_price[1] > 0
    /\ hret.args.position_strategy \in {Some("ICT"), Some("TREND")}

\* C11: for an open position the composer returns SELL exactly when the profit
\* rate reaches the take-profit of the strategy that opened the position or
\* falls to minus its stop-loss, and HOLD otherwise; the thresholds of the
\* other strategy play no part.
C11_ExitDispatch ==
    ExitCall =>
        LET price == hret.args.current_price[1]
            entry == hret.args.entry_price[1]
            opened == hret.args.position_strategy[1]
            tp == IF opened = "ICT" THEN ICT_TAKE_PROFIT ELSE TREND_TAKE_PROFIT
            sl == IF opened = "ICT" THEN ICT_STOP_LOSS ELSE TREND_STOP_LOSS
            sell == \/ (price - entry) * 10000 >= tp * entry
                    \/ (price - entry) * 10000 <= -(sl * entry)
        IN  /\ hret.signal.action = (IF sell THEN "SELL" ELSE "HOLD")
            /\ hret.signal.strategy_type = opened
            /\ sell => (hret.signal.take_profit = tp /\ hret.signal.stop_loss = sl)
            /\ hret.consulted = <<>>

\* C11 witness: a position opened by ICT, 0.3% in profit (the trend
\* take-profit), was held
C11_Witness ==
    /\ ExitCall
    /\ hret.args.position_strategy = Some("ICT")
    /\ (hret.args.current_price[1] - hret.args.entry_price[1]) * 10000
            = TREND_TAKE_PROFIT * hret.args.entry_price[1]
    /\ hret.signal.action = "HOLD"

\* C12: daily_profit and trade_count change only in update_profit, which adds
\* profit_percent and 1, and in reset_daily, which zeroes both; analyze and
\* get_position_size_multiplier leave them alone, and so does a change of date.
C12_AccumulatorWriters ==
    [][/\ (daily_profit' # daily_profit \/ trade_count' # trade_count) =>
            \/ /\ hret'.op = "update_profit"
               /\ daily_profit' = daily_profit + hret'.profit_percent
               /\ trade_count' = trade_count + 1
            \/ /\ hret'.op = "reset_daily"
               /\ daily_profit' = 0
               /\ trade_count' = 0
       /\ (hret' # hret /\ hret'.op \in {"analyze", "get_position_size_multiplier"}) =>
            /\ daily_profit' = daily_profit
            /\ trade_count' = trade_count
            /\ hret'.multiplier = C10_Tier'
       /\ today' # today =>
            (daily_profit' = daily_profit /\ trade_count' = trade_count)]_vars

\* C12 witness: on the day after the last reset, with the target met the day
\* before, analyze still returned an entry at reduced size
C12_Witness ==
    /\ IsAnalyze
    /\ hret.day > last_reset
    /\ trade_count > 0
    /\ daily_profit >= DAILY_TARGET
    /\ hret.multiplier = 50
    /\ hret.signal.action = "BUY"

----------------------------------------------------------------------------
(* Properties of the signal strategies and the indicators.  In every state  *)
(* sret describes the last strategy or indicator call.                      *)

\* a HOLD signal with confidence exactly 0.0
ZeroHold(signal) == signal.action = "HOLD" /\ signal.confidence = 0

\* a series too short for every detector
TooFewCandles(df) == df # None /\ Len(df[1]) < 3

\* the last call was ICTStrategy.analyze without a current price, or without a
\* position to handle and without a candle series, or with too few candles and
\* no precomputed detection
ICTInputMissing ==
    /\ sret.fn = "ICTStrategy.analyze"
    /\ \/ sret.args.current_price = None
       \/ /\ ~(sret.args.in_position /\ sret.args.entry_price # None
               /\ sret.args.entry_price # Some(0))
          /\ \/ sret.args.ohlcv_df = None
             \/ /\ TooFewCandles(sret.args.ohlcv_df)
                /\ sret.args.ob_result = None
                /\ sret.args.fvg_result = None
                /\ sret.args.lp_result = None

\* the last call was FVGStrategy.analyze without a current price, or without a
\* precomputed gap and without a candle series or with too few candles
FVGInputMissing ==
    /\ sret.fn = "FVGStrategy.analyze"
    /\ \/ sret.args.current_price = None
       \/ /\ sret.args.fvg_result = None
          /\ (sret.args.ohlcv_df = None \/ TooFewCandles(sret.args.ohlcv_df))

\* the last call was HybridStrategy.analyze without a current price, or
\* without an open position and without any candle series
HybridInputMissing ==
    /\ sret.fn = "HybridStrategy.analyze"
    /\ \/ sret.args.current_price = None
       \/ /\ ~sret.args.in_position
          /\ sret.args.df_1h = None
          /\ sret.args.df_5m = None

\* C13: a strategy entry point called with missing or insufficient input (no
\* current price, no candle series, too few candles) returns HOLD with
\* confidence exactly 0.0.
C13_ZeroHoldOnMissingInput ==
    (ICTInputMissing \/ FVGInputMissing \/ HybridInputMissing) => ZeroHold(sret.result)

\* the price lies inside [bottom, top]
PriceWithin(price, bottom, top) == price # None /\ bottom <= price[1] /\ price[1] <= top

UsedOb ==
    IF sret.args.ob_result = None THEN DetectOrderBlock(sret.args.ohlcv_df, 30, 2, 50)
    ELSE sret.args.ob_result

UsedFvg ==
    IF sret.args.fvg_result = None THEN DetectFvg(sret.args.ohlcv_df, 5, 50)
    ELSE sret.args.fvg_result

UsedLp ==
    IF sret.args.lp_result = None THEN DetectLiquidityPool(sret.args.ohlcv_df, 50, 5)
    ELSE sret.args.lp_result

\* the direction resolved from them: the order block's if one was found, else
\* the gap's
ResolvedDirection ==
    IF UsedOb # None /\ UsedOb[1].found THEN UsedOb[1].direction
    ELSE IF UsedFvg # None /\ UsedFvg[1].found THEN UsedFvg[1].direction
    ELSE "NONE"

\* the open position the call handled: flagged, with a positive entry price
HandledPosition ==
    /\ sret.args.current_price # None
    /\ sret.args.in_position
    /\ sret.args.entry_price # None
    /\ sret.args.entry_price[1] > 0

\* profit_rate >= take_profit or profit_rate <= -stop_loss for the handled position
ExitReached ==
    LET price == sret.args.current_price[1]
        entry == sret.args.entry_price[1]
    IN  \/ (price - entry) * 10000 >= sret.args.cfg.take_profit * entry
        \/ (price - entry) * 10000 <= -(sret.args.cfg.stop_loss * entry)

\* C15: ICTStrategy.analyze returns BUY only when it is not handling an open
\* position, the score reaches confluence_threshold, the resolved direction is
\* BULLISH and take_profit / stop_loss reaches min_rr_ratio; with a BEARISH
\* resolved direction an entry analysis returns neither BUY nor SELL; SELL is
\* returned only for an open position whose profit rate reached take_profit
\* or -stop_loss.
C15_LongOnlyGated ==
    sret.fn = "ICTStrategy.analyze" =>
        /\ sret.result.action = "BUY" =>
            /\ ~HandledPosition
            /\ sret.args.current_price # None
            /\ CalculateConfluenceScore(UsedOb, UsedFvg, UsedLp,
                                        sret.args.current_price).score
                    >= sret.args.cfg.confluence_threshold
            /\ ResolvedDirection = "BULLISH"
            /\ sret.args.cfg.take_profit * 100
                    >= sret.args.cfg.min_rr_ratio * sret.args.cfg.stop_loss
        /\ (ResolvedDirection = "BEARISH" /\ ~HandledPosition) =>
            sret.result.action = "HOLD"
        /\ sret.result.action = "SELL" => (HandledPosition /\ ExitReached)

\* C15 witness: a BUY whose direction came from the gap, no order block found
C15_Witness ==
    /\ sret.fn = "ICTStrategy.analyze"
    /\ sret.result.action = "BUY"
    /\ ~UsedOb[1].found
    /\ UsedFvg[1].direction = "BULLISH"

\* the strategy names of the regime table
RecommendedStrategies ==
    {"SKIP", "CONSERVATIVE_TREND", "ICT_MEAN_REVERSION", "TREND_FOLLOWING", "ICT_CONFLUENCE"}

\* C19: get_recommended_strategy answers every (volatility, trend, rsi), a NaN
\* rsi included, with one of its strategy names and a multiplier; HIGH
\* volatility without a strong trend gives (SKIP, 0.0), LOW volatility with
\* RANGING the mean-reversion profile, LOW volatility with STRONG_UP or WEAK_UP
\* TREND_FOLLOWING with a multiplier above 1, and the multiplier is 0.0
\* exactly when the recommendation is SKIP; get_position_size then sizes a
\* SKIP state, and only a SKIP state, at 0.
C19_RegimeTable ==
    /\ sret.fn = "get_recommended_strategy" =>
        LET volatility == sret.args.volatility
            trend == sret.args.trend
            strategy == sret.result[1]
            multiplier == sret.result[2]
        IN  /\ strategy \in RecommendedStrategies
            /\ multiplier \in 0..120
            /\ (volatility = "HIGH" /\ trend \notin {"STRONG_UP", "STRONG_DOWN"}) =>
                    (strategy = "SKIP" /\ multiplier = 0)
            /\ (volatility = "LOW" /\ trend = "RANGING") => strategy = "ICT_MEAN_REVERSION"
            /\ (volatility = "LOW" /\ trend \in {"STRONG_UP", "WEAK_UP"}) =>
                    (strategy = "TREND_FOLLOWING" /\ multiplier > 100)
            /\ multiplier = 0 <=> strategy = "SKIP"
    /\ sret.fn = "get_position_size" =>
        (sret.result = 0 <=> sret.args.market_state.recommended_strategy = "SKIP")

\* C19 witness: a rising market of low volatility was recommended trend
\* following at 1.2 times the size
C19_Witness ==
    /\ sret.fn = "get_recommended_strategy"
    /\ sret.args.volatility = "LOW"
    /\ sret.args.trend = "WEAK_UP"
    /\ sret.result = <<"TREND_FOLLOWING", 120>>

\* the series rises at every step
StrictlyRising(prices) == \A t \in 2..Len(prices) : prices[t] > prices[t - 1]

\* C20: calculate_rsi returns a value within [0, 100] for every series of at
\* least period + 1 closes, and for 20 strictly rising closes and period 14 a
\* value at or near 100 that is flagged overbought and not oversold.
C20_RsiZeroLoss ==
    (sret.fn = "calculate_rsi" /\ sret.args.prices # None
     /\ Len(sret.args.prices[1]) >= sret.args.period + 1) =>
        /\ sret.result # None
        /\ sret.result[1].value # None
        /\ sret.result[1].value[1] \in 0..100
        /\ (/\ sret.args.period = 14
            /\ Len(sret.args.prices[1]) = 20
            /\ StrictlyRising(sret.args.prices[1])) =>
                /\ sret.result[1].value[1] >= 99
                /\ sret.result[1].is_overbought
                /\ ~sret.result[1].is_oversold

\* the last call was detect_fvg
IsDetectFvg == sret.fn = "detect_fvg" /\ sret.result # None

\* the window detect_fvg scanned in its last call (lookback 50 exceeds every series)
Window == sret.args.df

\* candles i-2, i-1, i of the window leave a bullish gap of at least
\* min_gap_percent that no later candle has entered
OpenBullishGapAt(i) ==
    /\ Window[i - 2].high < Window[i].low
    /\ GapLargeEnough(Window[i].low, Window[i - 2].high, sret.args.min_gap_percent)
    /\ \A j \in (i + 1)..Len(Window) : Window[j].low > Window[i].low

\* C16: detect_fvg reports a gap whenever three consecutive candles of the
\* window leave an open bullish gap, the first three candles included; for
\* the three candles with high 100, high 105 / low 103 and low 110 it returns
\* found=True, BULLISH, gap_bottom=100, gap_top=110.
C16_FindsEveryGap ==
    IsDetectFvg =>
        /\ (\E i \in 3..Len(Window) : OpenBullishGapAt(i)) => sret.result[1].found
        /\ Window = <<CandleLow, CandleMomentum, CandleHigh>> =>
            /\ sret.result[1].found
            /\ sret.result[1].direction = "BULLISH"
            /\ sret.result[1].gap_bottom = 100
            /\ sret.result[1].gap_top = 110

\* C17: when a candle later than the gap's third candle closes within the band
\* [gap_bottom, gap_top], no detect_fvg call over a series with that candle
\* reports the gap as unfilled, however many candles follow.
C17_FillMonotone ==
    (IsDetectFvg /\ sret.result[1].found) =>
        \A j \in (sret.result[1].momentum_candle_time + 2)..Len(Window) :
            ~(/\ sret.result[1].gap_bottom <= Window[j].close
              /\ Window[j].close <= sret.result[1].gap_top)

\* the last call was detect_order_block and found a block
FoundOrderBlock ==
    /\ sret.fn = "detect_order_block"
    /\ sret.result # None
    /\ sret.result[1].found

\* the candle returned as the order block
BlockCandle == sret.args.df[sret.result[1].candle_time]

\* the min_consecutive candles right after the order block all rose (all fell)
RunAfterBlock(rising) ==
    \A k \in 1..2 :
        /\ sret.result[1].candle_time + k <= Len(sret.args.df)
        /\ LET c == sret.args.df[sret.result[1].candle_time + k]
           IN  IF rising THEN c.close > c.open ELSE c.close < c.open

\* C18: the candle detect_order_block returns has a body of at least
\* min_body_ratio of its range (a candle without range counting as 0), is
\* opposite in direction to the move it precedes, and is immediately followed
\* by at least min_consecutive candles in that direction.
C18_OrderBlockShape ==
    FoundOrderBlock =>
        /\ BlockCandle.high > BlockCandle.low
        /\ Abs(BlockCandle.close - BlockCandle.open) * 2 >= BlockCandle.high - BlockCandle.low
        /\ sret.result[1].direction = "BULLISH" =>
            (BlockCandle.close < BlockCandle.open /\ RunAfterBlock(TRUE))
        /\ sret.result[1].direction = "BEARISH" =>
            (BlockCandle.close > BlockCandle.open /\ RunAfterBlock(FALSE))

----------------------------------------------------------------------------
(* Properties of the orchestrator and its engine.  cycle describes the last *)
(* monitor_loop gate and the exchange balances at that moment; pc =         *)
(* "run_once" is the start of run_once, pc = "signal" the point where        *)
(* run_once hands a signal to execute_signal.                               *)

\* the engine's ledger as it would read after its own rollover to today
EngineLedgerToday == Rollover(current_stats, today)

\* the monitor loop's gate wrote data/daily_stats.json from the orchestrator's ledger
OrchestratorWroteFile == cycle.wrote

\* the orchestrator's gate never writes data/daily_stats.json
NoSecondWriter == ~OrchestratorWroteFile

\* the ledger a run_once was gated on holds the engine's record (both read
\* as of today: each instance rolls over on its own next can_trade)
NoDivergingCopy == pc = "run_once" => Rollover(orch_stats, today) = EngineLedgerToday

\* C21: the stats file and the position map have one writer, the engine: the
\* orchestrator's gate never writes the stats file, and the ledger it gates a
\* run_once on holds the same record as the engine's ledger.
C21_SingleWriter == NoSecondWriter /\ NoDivergingCopy

\* the engine marks a symbol as held exactly when the exchange account held
\* it as the iteration began
MarkedAsHeld(s) == positions[s].in_position <=> cycle.balances[s] > 0

\* C22: at the start of every run_once the engine's position for each symbol
\* agrees with the exchange balance: in_position exactly when the balance is
\* positive.
C22_ReconciledEachCycle == pc = "run_once" => \A s \in Symbols : MarkedAsHeld(s)

----------------------------------------------------------------------------
(* Properties of FVGStrategy.analyze.  sret describes the last call; UsedFvg *)
(* is the gap it worked on, the precomputed one or the detector's.           *)

\* the last call was FVGStrategy.analyze with a price, on a found gap of this direction
FvgCallOn(direction) ==
    /\ sret.fn = "FVGStrategy.analyze"
    /\ sret.args.current_price # None
    /\ Found(UsedFvg)
    /\ UsedFvg[1].direction = direction

FvgPrice == sret.args.current_price[1]

\* a price inside the band of a bullish gap gives BUY
FvgBuysInsideBand ==
    (FvgCallOn("BULLISH")
     /\ PriceWithin(sret.args.current_price, UsedFvg[1].gap_bottom, UsedFvg[1].gap_top))
        => sret.result.action = "BUY"

\* SELL is returned only below the momentum candle's stop level
FvgSellsOnlyBelowStop ==
    (sret.fn = "FVGStrategy.analyze" /\ sret.result.action = "SELL")
        => (FvgCallOn("BULLISH") /\ FvgPrice < UsedFvg[1].stop_loss)

\* a price still above the gap gives HOLD
FvgHoldsAboveBand ==
    (FvgCallOn("BULLISH") /\ FvgPrice > UsedFvg[1].gap_top) => sret.result.action = "HOLD"

\* a bearish gap is not traded
FvgBearishNeverTrades == FvgCallOn("BEARISH") => sret.result.action = "HOLD"

\* C23: for a found bullish gap FVGStrategy.analyze returns BUY whenever the
\* price lies within [gap_bottom, gap_top], SELL only when the price is below
\* the momentum candle's stop level, HOLD when the price is still above
\* gap_top; a bearish gap yields neither BUY nor SELL.
C23_FvgRetracement ==
    /\ FvgBuysInsideBand
    /\ FvgSellsOnlyBelowStop
    /\ FvgHoldsAboveBand
    /\ FvgBearishNeverTrades

----------------------------------------------------------------------------
(* Properties of detect_liquidity_pool.  sret describes the last call on the *)
(* series ohlcv; PoolWindow is the part of the series the call looked at.    *)

IsDetectLiquidityPool == sret.fn = "detect_liquidity_pool" /\ sret.result # None

PoolWindow == TailN(ohlcv, sret.args.lookback)

LastClose == PoolWindow[Len(PoolWindow)].close

\* the candles with swing_period candles on either side
Interior == (sret.args.swing_period + 1)..(Len(PoolWindow) - sret.args.swing_period)

Neighbours(i) == ((i - sret.args.swing_period)..(i + sret.args.swing_period)) \ {i}

\* no other candle within swing_period positions has a higher high / a lower low
NoHigherHigh(i) == \A j \in Neighbours(i) : PoolWindow[j].high <= PoolWindow[i].high

NoLowerLow(i) == \A j \in Neighbours(i) : PoolWindow[j].low >= PoolWindow[i].low

\* the candle's high is above / its low is below that of every other candle
\* within swing_period positions
HighestHigh(i) == \A j \in Neighbours(i) : PoolWindow[j].high < PoolWindow[i].high

LowestLow(i) == \A j \in Neighbours(i) : PoolWindow[j].low > PoolWindow[i].low

\* the result is the nearer of the given swing highs above the last close and
\* swing lows below it, whichever exist, with its zone around the level
NearestPool(highs, lows) ==
    LET result == sret.result[1]
        above == {PoolWindow[i].high : i \in {k \in highs : PoolWindow[k].high > LastClose}}
        below == {PoolWindow[i].low : i \in {k \in lows : PoolWindow[k].low < LastClose}}
    IN  /\ result.found <=> (above # {} \/ below # {})
        /\ result.found =>
            /\ result.pool_type = "SWING_HIGH" => result.level \in above
            /\ result.pool_type = "SWING_LOW" => result.level \in below
            /\ result.pool_type \in {"SWING_HIGH", "SWING_LOW"}
            /\ \A x \in above \cup below : Abs(result.level - LastClose) <= Abs(x - LastClose)
            /\ result.zone_bottom <= 1000 * result.level
            /\ 1000 * result.level <= result.zone_top
            /\ result.touch_count = 1

\* C24 as stated: candle i is a swing high iff no other candle within
\* swing_period positions on either side has a higher high (symmetric for swing
\* low), and detect_liquidity_pool returns the nearer of the swing highs above
\* the last close and the swing lows below it, falling back to the side that
\* exists, with zone_bottom <= level <= zone_top and touch_count = 1.
C24_NearestSwing ==
    IsDetectLiquidityPool =>
        NearestPool({i \in Interior : NoHigherHigh(i)}, {i \in Interior : NoLowerLow(i)})

\* C24, amended: candle i is a swing high iff its high is strictly above the
\* high of every other candle within swing_period positions on either side
\* (an equal high disqualifies both; symmetric for swing low), and
\* detect_liquidity_pool returns the nearer of the swing highs above the last
\* close and the swing lows below it, falling back to the side that exists,
\* with zone_bottom <= level <= zone_top and touch_count = 1.
C24_NearestStrictSwing ==
    IsDetectLiquidityPool =>
        NearestPool({i \in Interior : HighestHigh(i)}, {i \in Interior : LowestLow(i)})

\* a call that had a swing high above and a swing low below the last close and
\* returned the swing low, the nearer one
C24_Witness ==
    /\ IsDetectLiquidityPool
    /\ sret.result[1].found
    /\ sret.result[1].pool_type = "SWING_LOW"
    /\ \E i \in Interior : HighestHigh(i) /\ PoolWindow[i].high > LastClose
    /\ \E i \in Interior : LowestLow(i) /\ PoolWindow[i].low < LastClose

\* the strategy's signal for a held symbol at this price, on any order book
ExitSignalAt(s, price) ==
    OrderbookScalpingAnalyze(Some(Orderbook(100, 1, 10010, 10000)), Some(price),
                             Some(positions[s].entry_price), positions[s].in_position)

\* execute_signal returned a risk denial for the SELL of a held symbol
SellDeniedByEngineGate ==
    /\ pc = "idle"
    /\ call.action = "SELL"
    /\ events = <<"can_trade denied">>
    /\ positions[call.symbol].in_position

\* the monitor loop skipped run_once on a risk denial while a held symbol was
\* at its take-profit or stop-loss
SellSkippedByLoopGate ==
    /\ pc = "idle"
    /\ cycle.gate = "denied"
    /\ \E s \in Symbols, price \in BotPrices :
            positions[s].in_position /\ ExitSignalAt(s, price).action = "SELL"

\* in full-auto mode the engine's gate does not turn down an exit
EngineGatePassesExits == mode = "full" => ~SellDeniedByEngineGate

\* in full-auto mode the monitor loop's gate does not skip a cycle with an exit due
LoopGatePassesExits == mode = "full" => ~SellSkippedByLoopGate

\* C25: in full-auto mode the risk ledger never blocks an exit: a SELL signal
\* for a held symbol is not turned down by the engine's can_trade gate, and
\* the monitor loop does not skip the cycle on its own gate while a held
\* symbol is at its take-profit or stop-loss.
C25_ExitsNotBlocked == EngineGatePassesExits /\ LoopGatePassesExits

----------------------------------------------------------------------------
(* Properties of the position-aware strategies, over the last call sret.     *)

\* the last call was one of the position-aware analyze methods, flagged in_position
CalledWhileHolding ==
    /\ sret.fn \in {"ICTStrategy.analyze", "HybridStrategy.analyze", "OrderbookScalpingStrategy.analyze"}
    /\ sret.args.in_position

\* C26: called with in_position = true, the hybrid composer, the ICT strategy
\* and the orderbook scalping strategy never return BUY, whatever the
\* entry_price (0 and a missing one included).
C26_NoEntryWhileHolding == CalledWhileHolding => sret.result.action # "BUY"

\* the same for each strategy on its own
NoEntryWhileHoldingIn(fn) == (CalledWhileHolding /\ sret.fn = fn) => sret.result.action # "BUY"

IctHoldsNoEntry == NoEntryWhileHoldingIn("ICTStrategy.analyze")

HybridHoldsNoEntry == NoEntryWhileHoldingIn("HybridStrategy.analyze")

ScalpingHoldsNoEntry == NoEntryWhileHoldingIn("OrderbookScalpingStrategy.analyze")

\* with a usable entry price (entry_price > 0) none of them returns BUY
NoEntryWhileHoldingAtKnownEntry ==
    (CalledWhileHolding /\ Truthy(sret.args.entry_price)) => sret.result.action # "BUY"

\* ---------------------------------------------------------------------------
\* C27: counters of the ledger
\* ---------------------------------------------------------------------------

CountersNonNegative ==
    /\ current_stats.total_trades >= 0
    /\ current_stats.win_count >= 0
    /\ current_stats.loss_count >= 0

WinsAndLossesAddUp ==
    current_stats.win_count + current_stats.loss_count = current_stats.total_trades

\* C27: in every reachable state of the risk ledger win_count + loss_count
\* = total_trades, and the three counters are non-negative.
C27_CountersConsistent == CountersNonNegative /\ WinsAndLossesAddUp

\* what does hold: the counters add up as long as emergency_stop was never
\* called
C27_AddUpUntilStopped == stopped_on = None => WinsAndLossesAddUp

\* ---------------------------------------------------------------------------
\* C28: the day a recorded trade is counted in
\* ---------------------------------------------------------------------------

\* the last ledger call was a record_trade
TradeJustRecorded == ret.op = "record_trade"

\* the last ledger call was a can_trade that replaced the record of an
\* earlier date
RolledOverJustNow == ret.op = "can_trade" /\ ret.pre.date # ret.day

\* a trade is added to the record of the date on which record_trade is called
RecordedInRecordOfCallDay == TradeJustRecorded => ret.pre.date = ret.day

\* a record that a rollover replaces was last written on its own date: no
\* trade of a later date is in it
NoLaterTradeDiscarded == RolledOverJustNow => ret.written <= ret.pre.date

\* C28: every trade passed to record_trade is counted in the record of the
\* calendar date of the call, and a trade recorded after midnight is never
\* added to the previous day's record and discarded by the next rollover.
C28_CountedOnCallDay == RecordedInRecordOfCallDay /\ NoLaterTradeDiscarded

\* ---------------------------------------------------------------------------
\* C29: semi mode places no order and records no trade
\* ---------------------------------------------------------------------------

NoOrderPlaced == pc \notin {"buy", "sell"} /\ OrdersAt = {}

NoTradeRecorded ==
    /\ RecordsAt = {}
    /\ ret.op # "record_trade"
    /\ current_stats.total_trades = 0

\* execute_signal was called and has returned
SignalExecuted == pc = "idle" /\ call # NoCall

\* a BUY or SELL signal with a price
TradeSignalExecuted == SignalExecuted /\ call.action \in {"BUY", "SELL"} /\ call.price > 0

PositionsUntouched == SignalExecuted => positions = positions0

ReportsSignal ==
    /\ outcome.success
    /\ outcome.action = (IF call.action = "BUY" THEN "SIGNAL_BUY" ELSE "SIGNAL_SELL")
    /\ events = <<"can_trade allowed">>

ReportsDenial ==
    /\ ~outcome.success
    /\ outcome.action = call.action
    /\ events = <<"can_trade denied">>

C29_DenialWitness == mode = "semi" /\ TradeSignalExecuted /\ ReportsDenial

\* ---------------------------------------------------------------------------
\* C30: the confluence score an ICT entry of the composer needs
\* ---------------------------------------------------------------------------

\* the composer returned an entry tagged ICT
IctEntryReturned ==
    IsAnalyze /\ hret.signal.action = "BUY" /\ hret.signal.strategy_type = "ICT"

\* the composer asked its ICT strategy
IctConsulted == IsAnalyze /\ hret.consulted # <<>> /\ hret.consulted[1] = "ICT"

\* the confluence score of the 1h frame of the call
IctScore == IF hret.args.df_1h # None THEN ConfluenceScore(hret.args.df_1h[1]) ELSE 0

\* the ICT strategy was asked and returned BUY on a score from the
\* constructor's threshold up to (not including) 80
IctBuyBelow80 ==
    /\ IctConsulted
    /\ IctReturned.action = "BUY"
    /\ IctScore >= ICT_CONFLUENCE_THRESHOLD /\ IctScore < 80

\* the call went on to the trend strategy: asked when 5m data is supplied,
\* and the result is its entry or HOLD
FellThroughToTrend ==
    /\ hret.signal.strategy_type # "ICT"
    /\ hret.consulted = (IF hret.args.df_5m # None THEN <<"ICT", "TREND">> ELSE <<"ICT">>)
    /\ hret.signal.action = (IF TrendBuy60 THEN "BUY" ELSE "HOLD")
    /\ hret.signal.action = "BUY" => hret.signal.strategy_type = "TREND"

\* C30: the composer returns an ICT-tagged BUY only when the confluence score
\* is >= 80; an ICT BUY on a score in [50, 80) has a confidence below the
\* composer's 0.7 gate, is discarded, and the call falls through to the trend
\* strategy.
C30_EffectiveIctThreshold ==
    /\ IctEntryReturned => (IctConsulted /\ IctScore >= 80)
    /\ IctBuyBelow80 => (IctReturned.confidence < 70 /\ FellThroughToTrend)

\* an ICT BUY on score 70 discarded and the trend entry returned instead
C30_Witness ==
    /\ IctBuyBelow80
    /\ IctScore = 70
    /\ IctReturned.confidence = 60
    /\ hret.signal.action = "BUY" /\ hret.signal.strategy_type = "TREND"

\* an ICT entry on score 80, the lowest that passes
C30_EntryWitness == IctEntryReturned /\ IctScore = 80 /\ hret.signal.confidence = 70

============================================================================
